---------------------------- MODULE Spec2Model ----------------------------
(***************************************************************************)
(* A model of the symbolic Bitcoin-script analyzer of btc_fun               *)
(* (ScriptAnalyzer, ConditionStack, ScriptConv, Util) and of the block      *)
(* template editing of btc.ts.                                              *)
(*                                                                         *)
(* Ten specifications share the module:                                    *)
(*   SpecCS  the ConditionStack object driven by arbitrary calls, next to   *)
(*           a materialized vector of booleans;                            *)
(*   Spec    ScriptAnalyzer.analyzeScript on a script, one action per       *)
(*           iteration of the analyze() loop, forks run synchronously from  *)
(*           the branch point;                                             *)
(*   SpecClean ScriptAnalyzer.cleanupConditions called twice on given      *)
(*           conjunct lists;                                               *)
(*   SpecConv  ScriptConv.Int and ScriptConv.Bool applied to given inputs;  *)
(*   SpecTwice analyzeScript run a second time on the same script;          *)
(*   SpecTx  removeTransaction applied to a block template;                 *)
(*   SpecTemplate  removeTransaction and insertTransaction on a template;   *)
(*   SpecTake  takeElements applied to an analyzer with a given stack;      *)
(*   SpecUtil  exprCompareFn and normalizeExprs applied to given arrays;    *)
(*   SpecLive  Spec with the fairness of a program that keeps running.      *)
(*                                                                         *)
(* A value computed once and read several times is handed on as the         *)
(* parameter of a local operator, LET K(x) == ... IN K(f(a)), rather than   *)
(* named by LET x == f(a).                                                  *)
(***************************************************************************)
EXTENDS Integers, Sequences, FiniteSets, TLC

VARIABLES
    cond,       \* SpecCS: a ConditionStack object
    vec,        \* SpecCS: the vector of booleans the same calls build
    script,     \* the script handed to analyzeScript: a sequence of items
    version,    \* getScriptVersion()
    rules,      \* getScriptRules()
    objs,       \* the ScriptAnalyzer objects constructed so far, by identity
    heap,       \* the expression nodes { opcode, args, error } allocated so far
    branches,   \* the shared registry: a sequence of analyzer identities
    callStack,  \* the analyzers whose analyze() is on the call stack, top last
    pc,         \* where the driver is: "init", "run", "done", "threw"; in
                \* SpecClean "clean0", "clean1", "clean2"; "conv", "take",
                \* "util", "called" where a single function is called
    status,     \* per analyzer: "running" or "returned"
    out,        \* per analyzer: what its analyze() returned
    calls,      \* per analyzer: how many times analyze() was entered
    parent,     \* per analyzer: the analyzer it was cloned from (0: the root)
    log,        \* the console.log('spending path error:', ...) lines
    printed,    \* the disjunctions handed to console.log
    shown,      \* per printed disjunction: the analyzers its disjuncts are of
    result,     \* what analyzeScript returned or threw
    conv,       \* SpecConv: a ScriptConv input and what the calls made of it
    template,   \* SpecTx: the BlockTemplate: transactions (by identity) and
                \* coinbasevalue
    txobjs,     \* SpecTx: the BlockTemplateTX objects, by identity
    ret,        \* the value the call under test returned
    first       \* SpecTwice: what the first of two runs left

csVars == <<cond, vec>>

txVars == <<template, txobjs>>

anVars == <<script, version, rules, objs, heap, branches, callStack, pc,
            status, out, calls, parent, log, printed, shown, result>>

vars == <<cond, vec, script, version, rules, objs, heap, branches, callStack,
          pc, status, out, calls, parent, log, printed, shown, result,
          conv, template, txobjs, ret, first>>

----------------------------------------------------------------------------
(* opcodes                                                                  *)

OP_0 == 0
OP_1NEGATE == 79
OP_1 == 81
OP_2 == 82
OP_3 == 83
OP_4 == 84
OP_5 == 85
OP_6 == 86
OP_7 == 87
OP_8 == 88
OP_9 == 89
OP_10 == 90
OP_11 == 91
OP_12 == 92
OP_13 == 93
OP_14 == 94
OP_15 == 95
OP_16 == 96
OP_NOP == 97
OP_IF == 99
OP_NOTIF == 100
OP_VERIF == 101
OP_VERNOTIF == 102
OP_ELSE == 103
OP_ENDIF == 104
OP_VERIFY == 105
OP_RETURN == 106
OP_TOALTSTACK == 107
OP_FROMALTSTACK == 108
OP_2DROP == 109
OP_2DUP == 110
OP_3DUP == 111
OP_2OVER == 112
OP_2ROT == 113
OP_2SWAP == 114
OP_IFDUP == 115
OP_DEPTH == 116
OP_DROP == 117
OP_DUP == 118
OP_NIP == 119
OP_OVER == 120
OP_PICK == 121
OP_ROLL == 122
OP_ROT == 123
OP_SWAP == 124
OP_TUCK == 125
OP_CAT == 126
OP_SUBSTR == 127
OP_LEFT == 128
OP_RIGHT == 129
OP_SIZE == 130
OP_INVERT == 131
OP_AND == 132
OP_OR == 133
OP_XOR == 134
OP_EQUAL == 135
OP_EQUALVERIFY == 136
OP_1ADD == 139
OP_1SUB == 140
OP_2MUL == 141
OP_2DIV == 142
OP_NEGATE == 143
OP_ABS == 144
OP_NOT == 145
OP_0NOTEQUAL == 146
OP_ADD == 147
OP_SUB == 148
OP_MUL == 149
OP_DIV == 150
OP_MOD == 151
OP_LSHIFT == 152
OP_RSHIFT == 153
OP_BOOLAND == 154
OP_BOOLOR == 155
OP_NUMEQUAL == 156
OP_NUMEQUALVERIFY == 157
OP_NUMNOTEQUAL == 158
OP_LESSTHAN == 159
OP_GREATERTHAN == 160
OP_LESSTHANOREQUAL == 161
OP_GREATERTHANOREQUAL == 162
OP_MIN == 163
OP_MAX == 164
OP_WITHIN == 165
OP_RIPEMD160 == 166
OP_SHA1 == 167
OP_SHA256 == 168
OP_HASH160 == 169
OP_HASH256 == 170
OP_CODESEPARATOR == 171
OP_CHECKSIG == 172
OP_CHECKSIGVERIFY == 173
OP_CHECKMULTISIG == 174
OP_CHECKMULTISIGVERIFY == 175
OP_NOP1 == 176
OP_CHECKLOCKTIMEVERIFY == 177
OP_CHECKSEQUENCEVERIFY == 178
OP_NOP4 == 179
OP_NOP5 == 180
OP_NOP6 == 181
OP_NOP7 == 182
OP_NOP8 == 183
OP_NOP9 == 184
OP_NOP10 == 185
OP_CHECKSIGADD == 186

\* internal opcodes (not used in bitcoin core)
INTERNAL_NOT == 0 - 1

\* a list that leaves OP_MUL enabled
disabledOpcodesNoMul ==
    {OP_CAT, OP_SUBSTR, OP_LEFT, OP_RIGHT, OP_INVERT, OP_AND, OP_OR, OP_XOR,
     OP_2MUL, OP_2DIV, OP_DIV, OP_MOD, OP_LSHIFT, OP_RSHIFT}

\* Disabled because of CVE-2010-5137
disabledOpcodes ==
    {OP_CAT, OP_SUBSTR, OP_LEFT, OP_RIGHT, OP_INVERT, OP_AND, OP_OR, OP_XOR,
     OP_2MUL, OP_2DIV, OP_MUL, OP_DIV, OP_MOD, OP_LSHIFT, OP_RSHIFT}

----------------------------------------------------------------------------
(* ScriptError, ScriptVersion, ScriptRules                                  *)

SCRIPT_ERR_EVAL_FALSE == 2
SCRIPT_ERR_OP_RETURN == 3
SCRIPT_ERR_STACK_SIZE == 7
SCRIPT_ERR_SIG_COUNT == 8
SCRIPT_ERR_PUBKEY_COUNT == 9
SCRIPT_ERR_VERIFY == 10
SCRIPT_ERR_EQUALVERIFY == 11
SCRIPT_ERR_CHECKMULTISIGVERIFY == 12
SCRIPT_ERR_CHECKSIGVERIFY == 13
SCRIPT_ERR_NUMEQUALVERIFY == 14
SCRIPT_ERR_BAD_OPCODE == 15
SCRIPT_ERR_DISABLED_OPCODE == 16
SCRIPT_ERR_INVALID_STACK_OPERATION == 17
SCRIPT_ERR_INVALID_ALTSTACK_OPERATION == 18
SCRIPT_ERR_UNBALANCED_CONDITIONAL == 19
SCRIPT_ERR_SIG_NULLDUMMY == 27
SCRIPT_ERR_CLEANSTACK == 29
SCRIPT_ERR_MINIMALIF == 30
SCRIPT_ERR_TAPSCRIPT_CHECKMULTISIG == 49
SCRIPT_ERR_TAPSCRIPT_MINIMALIF == 50
SCRIPT_ERR_NUM_OVERFLOW == 54

ScriptVersion == [LEGACY |-> 0, SEGWITV0 |-> 1, SEGWITV1 |-> 2]

ScriptRules == [ALL |-> 0, CONSENSUS_ONLY |-> 1]

\* JavaScript's undefined: what analyze() returns when it falls off its end,
\* and the error field of a node built without one.
undefined == 0 - 1

----------------------------------------------------------------------------
(* Stack elements and expressions.  A Uint8Array is Bytes(b), b a sequence   *)
(* of 0..255; { var: n } is Var(n); an { opcode, args, error } object is a  *)
(* node of the heap, and a reference to it is Ref(id): its args array is    *)
(* sorted in place by Util.normalizeExprs, so its identity matters.         *)

Bytes(b) == [type |-> "value", bytes |-> b]

Var(n) == [type |-> "var", var |-> n]

Ref(id) == [type |-> "opcode", ref |-> id]

IsBytes(e) == e.type = "value"

IsVar(e) == e.type = "var"

IsApp(e) == e.type = "opcode"

Node(opcode, args, error) == [opcode |-> opcode, args |-> args, error |-> error]

\* { opcode, args, error }: the heap with the new node, and the reference
NewNode(h, opcode, args, error) ==
    [h |-> Append(h, Node(opcode, args, error)), e |-> Ref(Len(h) + 1)]

\* A script item: a data push (Uint8Array) or an opcode (number).
Push(b) == [push |-> TRUE, data |-> b, op |-> undefined]

Op(code) == [push |-> FALSE, data |-> <<>>, op |-> code]

----------------------------------------------------------------------------
(* ScriptConv                                                               *)

RECURSIVE LEBytes(_)
\* while (abs) { buf.push(abs & 0xff); abs >>= 8; }
LEBytes(abs) ==
    IF abs = 0 THEN <<>> ELSE <<abs % 256>> \o LEBytes(abs \div 256)

\* ScriptConv.Int.encode, for |n| <= 0x7fffffff
IntEncode(n) ==
    LET Sign(buf) ==
            IF Len(buf) > 0 /\ buf[Len(buf)] >= 128
            THEN Append(buf, IF n < 0 THEN 128 ELSE 0)
            ELSE IF n < 0 THEN [buf EXCEPT ![Len(buf)] = @ + 128]
            ELSE buf
    IN  Sign(LEBytes(IF n < 0 THEN 0 - n ELSE n))

RECURSIVE LEValue(_, _)
\* n |= buf[i] << (i * 8), from index i (1-based) on
LEValue(buf, i) ==
    IF i > Len(buf) THEN 0 ELSE buf[i] + 256 * LEValue(buf, i + 1)

\* a decode that clears the sign bit and never negates
IntDecodeMagnitude(buf) ==
    IF Len(buf) = 0 THEN 0
    ELSE LEValue([buf EXCEPT ![Len(buf)] = @ % 128], 1)

\* ScriptConv.Int.decode, for buffers of at most 4 bytes
IntDecode(buf) ==
    IF Len(buf) = 0 THEN 0
    ELSE IF buf[Len(buf)] >= 128
    THEN 0 - LEValue([buf EXCEPT ![Len(buf)] = @ - 128], 1)
    ELSE LEValue(buf, 1)

BoolFALSE == <<>>

BoolTRUE == <<1>>

\* ScriptConv.Bool.encode
BoolEncode(b) == IF b THEN BoolTRUE ELSE BoolFALSE

RECURSIVE BoolDecodeFrom(_, _)
\* the for loop of Bool.decode, from index i (1-based) on
BoolDecodeFrom(buf, i) ==
    IF i > Len(buf) THEN FALSE
    ELSE IF buf[i] # 0 THEN i # Len(buf) \/ buf[i] # 128
    ELSE BoolDecodeFrom(buf, i + 1)

\* a decode for which every non-zero byte is true
BoolDecodeAnyByte(buf) == \E i \in 1..Len(buf) : buf[i] # 0

\* ScriptConv.Bool.decode
BoolDecode(buf) == BoolDecodeFrom(buf, 1)

\* ScriptConv.Bool.not
BoolNot(buf) == BoolEncode(~BoolDecode(buf))

----------------------------------------------------------------------------
(* ConditionStack                                                           *)

\* A constant for m_first_false_pos to indicate there are no falses.
NO_FALSE == 0 - 1

\* an empty() that never reports an empty stack
cs_empty_never(c) == FALSE

\* new ConditionStack()
ConditionStackNew == [m_stack_size |-> 0, m_first_false_pos |-> NO_FALSE]

cs_empty(c) == c.m_stack_size = 0

\* push_back that records a first false one place too high
cs_push_back_high(c, f) ==
    [m_stack_size |-> c.m_stack_size + 1,
     m_first_false_pos |->
        IF c.m_first_false_pos = NO_FALSE /\ ~f
        THEN c.m_stack_size + 1 ELSE c.m_first_false_pos]

cs_all_true(c) == c.m_first_false_pos = NO_FALSE

cs_push_back(c, f) ==
    [m_stack_size |-> c.m_stack_size + 1,
     m_first_false_pos |->
        IF c.m_first_false_pos = NO_FALSE /\ ~f
        THEN c.m_stack_size ELSE c.m_first_false_pos]

\* pop_back without the reset of line 642: a popped first false stays recorded
cs_pop_back_stale(c) ==
    [m_stack_size |-> c.m_stack_size - 1,
     m_first_false_pos |-> c.m_first_false_pos]

\* for m_stack_size > 0 (it throws otherwise)
cs_pop_back(c) ==
    [m_stack_size |-> c.m_stack_size - 1,
     m_first_false_pos |->
        IF c.m_first_false_pos = c.m_stack_size - 1
        THEN NO_FALSE ELSE c.m_first_false_pos]

\* for m_stack_size > 0 (it throws otherwise)
cs_toggle_top(c) ==
    [m_stack_size |-> c.m_stack_size,
     m_first_false_pos |->
        IF c.m_first_false_pos = NO_FALSE THEN c.m_stack_size - 1
        ELSE IF c.m_first_false_pos = c.m_stack_size - 1 THEN NO_FALSE
        ELSE c.m_first_false_pos]

\* ConditionStack.clone
cs_clone(c) ==
    [m_stack_size |-> c.m_stack_size, m_first_false_pos |-> c.m_first_false_pos]

----------------------------------------------------------------------------
(* ScriptAnalyzer: the object                                               *)

\* new ScriptAnalyzer(script): the fields of the root analyzer
NewAnalyzer ==
    [stack |-> <<>>, altstack |-> <<>>, spendingConditions |-> <<>>,
     varCounter |-> 0, scriptOffset |-> 0, path |-> 0, cs |-> ConditionStackNew]

\* a copy constructor that puts the fork back on the item just read
CloneAnalyzerAtBranch(arg) ==
    [stack |-> arg.stack, altstack |-> arg.altstack,
     spendingConditions |-> arg.spendingConditions,
     varCounter |-> arg.varCounter, scriptOffset |-> arg.scriptOffset - 1,
     path |-> arg.path + 1, cs |-> cs_clone(arg.cs)]

\* a copy constructor that starts the fork's variable counter afresh
CloneAnalyzerFreshCounter(arg) ==
    [stack |-> arg.stack, altstack |-> arg.altstack,
     spendingConditions |-> arg.spendingConditions,
     varCounter |-> 0, scriptOffset |-> arg.scriptOffset,
     path |-> arg.path + 1, cs |-> cs_clone(arg.cs)]

\* new ScriptAnalyzer(arg): the fields of a fork of arg
CloneAnalyzer(arg) ==
    [stack |-> arg.stack, altstack |-> arg.altstack,
     spendingConditions |-> arg.spendingConditions,
     varCounter |-> arg.varCounter, scriptOffset |-> arg.scriptOffset,
     path |-> arg.path + 1, cs |-> cs_clone(arg.cs)]

\* a constructor that registers the analyzer twice
RegisterTwice(reg, id) == Append(Append(reg, id), id)

\* a constructor that registers with unshift instead of push
RegisterFront(reg, id) == <<id>> \o reg

\* this.branches.push(this) of the copy constructor / this.branches = [this]
Register(reg, id) == Append(reg, id)

RECURSIVE TakeLoop(_, _, _, _)
\* the for loop of takeElements: n iterations left
TakeLoop(stack, vc, res, n) ==
    IF n = 0 THEN [stack |-> stack, varCounter |-> vc, res |-> res]
    ELSE IF Len(stack) > 0
         THEN TakeLoop(SubSeq(stack, 1, Len(stack) - 1), vc,
                       <<stack[Len(stack)]>> \o res, n - 1)
         ELSE TakeLoop(stack, vc + 1, <<Var(vc)>> \o res, n - 1)

\* takeElements with res.push in place of res.unshift
takeElementsPushed(a, amount) ==
    LET Taken(r) ==
            [a |-> [a EXCEPT !.stack = r.stack, !.varCounter = r.varCounter],
             res |-> [i \in 1..Len(r.res) |-> r.res[Len(r.res) + 1 - i]]]
    IN  Taken(TakeLoop(a.stack, a.varCounter, <<>>, amount))

\* ScriptAnalyzer.takeElements: [a |-> the analyzer after, res |-> the elements]
\* a takeElements that leaves varCounter as it found it
takeElementsStale(a, amount) ==
    LET Taken(r) ==
            [a |-> [a EXCEPT !.stack = r.stack],
             res |-> r.res]
    IN  Taken(TakeLoop(a.stack, a.varCounter, <<>>, amount))

takeElements(a, amount) ==
    LET Taken(r) ==
            [a |-> [a EXCEPT !.stack = r.stack, !.varCounter = r.varCounter],
             res |-> r.res]
    IN  Taken(TakeLoop(a.stack, a.varCounter, <<>>, amount))

RECURSIVE ReadLoop(_, _, _)
\* the while loop of readElements
ReadLoop(stack, vc, amount) ==
    IF Len(stack) < amount
    THEN ReadLoop(<<Var(vc)>> \o stack, vc + 1, amount)
    ELSE [stack |-> stack, varCounter |-> vc]

\* ScriptAnalyzer.readElements: [a |-> the analyzer after, res |-> the elements]
readElements(a, amount) ==
    LET Read(r) ==
            [a |-> [a EXCEPT !.stack = r.stack, !.varCounter = r.varCounter],
             res |-> SubSeq(r.stack, Len(r.stack) - amount + 1, Len(r.stack))]
    IN  Read(ReadLoop(a.stack, a.varCounter, amount))

\* ScriptAnalyzer.verify: [a |-> the analyzer after, ok |-> the return value]
verify(a) ==
    LET Verify(t) ==
            IF IsBytes(t.res[1])
            THEN [a |-> t.a, ok |-> BoolDecode(t.res[1].bytes)]
            ELSE [a |-> [t.a EXCEPT !.spendingConditions = Append(@, t.res[1])],
                  ok |-> TRUE]
    IN  Verify(takeElements(a, 1))

\* ScriptAnalyzer.numFromStack: threw (the top is no Uint8Array), else
\* defined (the top has at most 4 bytes) and n
numFromStack(a) ==
    LET Num(t) ==
            IF ~IsBytes(t.res[1])
            THEN [a |-> t.a, threw |-> TRUE, defined |-> FALSE, n |-> 0]
            ELSE IF Len(t.res[1].bytes) <= 4
            THEN [a |-> t.a, threw |-> FALSE, defined |-> TRUE,
                  n |-> IntDecode(t.res[1].bytes)]
            ELSE [a |-> t.a, threw |-> FALSE, defined |-> FALSE, n |-> 0]
    IN  Num(takeElements(a, 1))

PushStack(a, elems) == [a EXCEPT !.stack = @ \o elems]

\* what one case of the switch leaves: break, return <error>, or an exception
Break(a, h) == [a |-> a, h |-> h, out |-> undefined, threw |-> FALSE]

Return(a, h, err) == [a |-> a, h |-> h, out |-> err, threw |-> FALSE]

Throw(a, h) == [a |-> a, h |-> h, out |-> undefined, threw |-> TRUE]

\* stack.push({ opcode, args }) with args t.res taken from the stack; break
PushNode(t, h, opcode) ==
    Break(PushStack(t.a, <<Ref(Len(h) + 1)>>),
          Append(h, Node(opcode, t.res, undefined)))

\* a verification that fails a node comparing two different byte strings
VerifyOrFolding(r, err) ==
    LET top == r.a.stack[Len(r.a.stack)]
        Verified(v) == IF v.ok THEN Break(v.a, r.h) ELSE Return(v.a, r.h, err)
    IN  IF /\ IsApp(top)
           /\ r.h[top.ref].opcode = OP_EQUAL
           /\ IsBytes(r.h[top.ref].args[1])
           /\ IsBytes(r.h[top.ref].args[2])
           /\ r.h[top.ref].args[1] # r.h[top.ref].args[2]
        THEN Return(r.a, r.h, err)
        ELSE Verified(verify(r.a))

\* if (!this.verify()) return err; break -- after a case that left r
VerifyOr(r, err) ==
    LET Verified(v) == IF v.ok THEN Break(v.a, r.h) ELSE Return(v.a, r.h, err)
    IN  Verified(verify(r.a))

----------------------------------------------------------------------------
(* ScriptAnalyzer.analyze: one iteration of the loop                        *)

\* a gate that lets data pushes through
SkippedOpcodesOnly(fExec, item) ==
    ~fExec /\ ~item.push /\ (item.op < OP_IF \/ item.op > OP_ENDIF)

\* line 195: whether the item is skipped
Skipped(fExec, item) ==
    ~fExec /\ (item.push \/ item.op < OP_IF \/ item.op > OP_ENDIF)

\* case OP_PICK, OP_ROLL
ExecPickRoll(a, h, op) ==
    LET Move(r, n) ==
            Break([r.a EXCEPT !.stack =
                     Append(IF op = OP_ROLL
                            THEN SubSeq(@, 1, Len(@) - n - 1)
                                 \o SubSeq(@, Len(@) - n + 1, Len(@))
                            ELSE @,
                            r.res[1])], h)
        Pick(index) ==
            IF index.threw THEN Throw(index.a, h)
            ELSE IF ~index.defined
            THEN Return(index.a, h, SCRIPT_ERR_NUM_OVERFLOW)
            ELSE IF index.n < 0
            THEN Return(index.a, h, SCRIPT_ERR_INVALID_STACK_OPERATION)
            ELSE Move(readElements(index.a, index.n + 1), index.n)
    IN  Pick(numFromStack(a))

\* case OP_CHECKMULTISIG, OP_CHECKMULTISIGVERIFY
ExecCheckMultisig(a, h, op, ver) ==
    LET Finish(r) ==
            IF op = OP_CHECKMULTISIGVERIFY
            THEN VerifyOr(r, SCRIPT_ERR_CHECKMULTISIGVERIFY)
            ELSE r
        \* the dummy is taken, the null-dummy condition and the node are built
        Build(kn, pks, sn, sigs, dummy) ==
            Finish(Break(
                [dummy.a EXCEPT
                   !.spendingConditions = Append(@, Ref(Len(h) + 1)),
                   !.stack = Append(@, Ref(Len(h) + 2))],
                h \o <<Node(OP_EQUAL, <<dummy.res[1], Bytes(BoolFALSE)>>,
                            SCRIPT_ERR_SIG_NULLDUMMY),
                       Node(OP_CHECKMULTISIG,
                            sigs \o <<Bytes(IntEncode(sn))>> \o pks
                              \o <<Bytes(IntEncode(kn))>>,
                            undefined)>>))
        Sigs(kn, pks, sn, sigs) ==
            Build(kn, pks, sn, sigs.res, takeElements(sigs.a, 1))
        SigCount(kn, pks, scount) ==
            IF scount.threw THEN Throw(scount.a, h)
            ELSE IF ~scount.defined
            THEN Return(scount.a, h, SCRIPT_ERR_NUM_OVERFLOW)
            ELSE IF scount.n < 0 \/ scount.n > kn
            THEN Return(scount.a, h, SCRIPT_ERR_SIG_COUNT)
            ELSE Sigs(kn, pks, scount.n, takeElements(scount.a, scount.n))
        Keys(kn, pks) == SigCount(kn, pks.res, numFromStack(pks.a))
        KeyCount(kcount) ==
            IF kcount.threw THEN Throw(kcount.a, h)
            ELSE IF ~kcount.defined
            THEN Return(kcount.a, h, SCRIPT_ERR_NUM_OVERFLOW)
            ELSE IF kcount.n < 0 \/ kcount.n > 20
            THEN Return(kcount.a, h, SCRIPT_ERR_PUBKEY_COUNT)
            ELSE Keys(kcount.n, takeElements(kcount.a, kcount.n))
    IN  IF ver = ScriptVersion.SEGWITV1
        THEN Return(a, h, SCRIPT_ERR_TAPSCRIPT_CHECKMULTISIG)
        ELSE KeyCount(numFromStack(a))

\* case OP_CHECKLOCKTIMEVERIFY, OP_CHECKSEQUENCEVERIFY
ExecLockTime(a, h, op) ==
    LET Lock(r) ==
            Break([r.a EXCEPT !.spendingConditions = Append(@, Ref(Len(h) + 1))],
                  Append(h, Node(op, r.res, undefined)))
    IN  Lock(readElements(a, 1))

\* case OP_CHECKSIGADD
ExecCheckSigAdd(a, h, ver) ==
    LET Add(t) ==
            Break(PushStack(t.a, <<Ref(Len(h) + 2)>>),
                  h \o <<Node(OP_CHECKSIG, <<t.res[1], t.res[3]>>, undefined),
                         Node(OP_ADD, <<t.res[2], Ref(Len(h) + 1)>>, undefined)>>)
    IN  IF ver < ScriptVersion.SEGWITV1
        THEN Return(a, h, SCRIPT_ERR_BAD_OPCODE)
        ELSE Add(takeElements(a, 3))

\* the cases of the switch that build an { opcode, args } node
ExecNodeOp(a, h, op, ver) ==
    CASE op = OP_SIZE -> PushNode(readElements(a, 1), h, op)
      [] op = OP_EQUAL -> PushNode(takeElements(a, 2), h, OP_EQUAL)
      [] op = OP_EQUALVERIFY ->
           VerifyOr(PushNode(takeElements(a, 2), h, OP_EQUAL),
                    SCRIPT_ERR_EQUALVERIFY)
      [] op \in {OP_1ADD, OP_1SUB, OP_NEGATE, OP_ABS, OP_NOT, OP_0NOTEQUAL} ->
           PushNode(takeElements(a, 1), h, op)
      [] op \in {OP_ADD, OP_SUB, OP_BOOLAND, OP_BOOLOR, OP_NUMEQUAL,
                 OP_NUMNOTEQUAL, OP_LESSTHAN, OP_GREATERTHAN,
                 OP_LESSTHANOREQUAL, OP_GREATERTHANOREQUAL, OP_MIN, OP_MAX} ->
           PushNode(takeElements(a, 2), h, op)
      [] op = OP_NUMEQUALVERIFY ->
           \* line 414 tests op === OP_EQUALVERIFY, which this case never
           \* sees: the node is pushed and not verified
           PushNode(takeElements(a, 2), h, OP_NUMEQUAL)
      [] op = OP_WITHIN -> PushNode(takeElements(a, 3), h, op)
      [] op \in {OP_RIPEMD160, OP_SHA1, OP_SHA256, OP_HASH160, OP_HASH256} ->
           PushNode(takeElements(a, 1), h, op)
      [] op = OP_CHECKSIG -> PushNode(takeElements(a, 2), h, OP_CHECKSIG)
      [] op = OP_CHECKSIGVERIFY ->
           VerifyOr(PushNode(takeElements(a, 2), h, OP_CHECKSIG),
                    SCRIPT_ERR_CHECKSIGVERIFY)
      [] op \in {OP_CHECKLOCKTIMEVERIFY, OP_CHECKSEQUENCEVERIFY} ->
           ExecLockTime(a, h, op)
      [] op = OP_CHECKSIGADD -> ExecCheckSigAdd(a, h, ver)

NodeOps ==
    {OP_SIZE, OP_EQUAL, OP_EQUALVERIFY, OP_1ADD, OP_1SUB, OP_NEGATE, OP_ABS,
     OP_NOT, OP_0NOTEQUAL, OP_ADD, OP_SUB, OP_BOOLAND, OP_BOOLOR, OP_NUMEQUAL,
     OP_NUMEQUALVERIFY, OP_NUMNOTEQUAL, OP_LESSTHAN, OP_GREATERTHAN,
     OP_LESSTHANOREQUAL, OP_GREATERTHANOREQUAL, OP_MIN, OP_MAX, OP_WITHIN,
     OP_RIPEMD160, OP_SHA1, OP_SHA256, OP_HASH160, OP_HASH256, OP_CHECKSIG,
     OP_CHECKSIGVERIFY, OP_CHECKLOCKTIMEVERIFY, OP_CHECKSEQUENCEVERIFY,
     OP_CHECKSIGADD}

\* stack.push(...elems) after takeElements or readElements left t
Replace(t, h, elems) == Break(PushStack(t.a, elems), h)

\* case OP_TOALTSTACK
ExecToAltStack(a, h) ==
    LET Move(t) == Break([t.a EXCEPT !.altstack = Append(@, t.res[1])], h)
    IN  Move(takeElements(a, 1))

\* case OP_FROMALTSTACK
ExecFromAltStack(a, h) ==
    IF Len(a.altstack) = 0
    THEN Return(a, h, SCRIPT_ERR_INVALID_ALTSTACK_OPERATION)
    ELSE Break([a EXCEPT !.stack = Append(@, a.altstack[Len(a.altstack)]),
                         !.altstack = SubSeq(@, 1, Len(@) - 1)], h)

\* the permutation an opcode applies to the elements it took or read
Shuffle(op, t, h) ==
    CASE op = OP_2DROP -> Replace(t, h, <<>>)
      [] op = OP_2DUP  -> Replace(t, h, t.res)
      [] op = OP_3DUP  -> Replace(t, h, t.res)
      [] op = OP_2OVER -> Replace(t, h, SubSeq(t.res, 1, 2))
      [] op = OP_2ROT  -> Replace(t, h, SubSeq(t.res, 3, 6) \o SubSeq(t.res, 1, 2))
      [] op = OP_2SWAP -> Replace(t, h, SubSeq(t.res, 3, 4) \o SubSeq(t.res, 1, 2))
      [] op = OP_DROP  -> Replace(t, h, <<>>)
      [] op = OP_DUP   -> Replace(t, h, <<t.res[1]>>)
      [] op = OP_NIP   -> Replace(t, h, <<t.res[2]>>)
      [] op = OP_OVER  -> Replace(t, h, <<t.res[1]>>)
      [] op = OP_ROT   -> Replace(t, h, <<t.res[2], t.res[3], t.res[1]>>)
      [] op = OP_SWAP  -> Replace(t, h, <<t.res[2], t.res[1]>>)
      [] op = OP_TUCK  -> Replace(t, h, <<t.res[2]>> \o t.res)

\* the stack-plumbing cases of the switch
ExecStackOp(a, h, op) ==
    CASE op = OP_TOALTSTACK -> ExecToAltStack(a, h)
      [] op = OP_FROMALTSTACK -> ExecFromAltStack(a, h)
      [] op = OP_DEPTH ->
           Break(PushStack(a, <<Bytes(IntEncode(Len(a.stack)))>>), h)
      [] op \in {OP_PICK, OP_ROLL} -> ExecPickRoll(a, h, op)
      [] op \in {OP_DUP, OP_DROP} ->
           Shuffle(op, IF op = OP_DUP THEN readElements(a, 1)
                       ELSE takeElements(a, 1), h)
      [] op \in {OP_2DUP, OP_OVER} -> Shuffle(op, readElements(a, 2), h)
      [] op = OP_3DUP -> Shuffle(op, readElements(a, 3), h)
      [] op = OP_2OVER -> Shuffle(op, readElements(a, 4), h)
      [] op \in {OP_2DROP, OP_NIP, OP_SWAP, OP_TUCK} ->
           Shuffle(op, takeElements(a, 2), h)
      [] op = OP_ROT -> Shuffle(op, takeElements(a, 3), h)
      [] op = OP_2SWAP -> Shuffle(op, takeElements(a, 4), h)
      [] op = OP_2ROT -> Shuffle(op, takeElements(a, 6), h)

StackOps ==
    {OP_TOALTSTACK, OP_FROMALTSTACK, OP_2DROP, OP_2DUP, OP_3DUP, OP_2OVER,
     OP_2ROT, OP_2SWAP, OP_DEPTH, OP_DROP, OP_DUP, OP_NIP, OP_OVER, OP_PICK,
     OP_ROLL, OP_ROT, OP_SWAP, OP_TUCK}

NopOps ==
    {OP_NOP, OP_CODESEPARATOR, OP_NOP1, OP_NOP4, OP_NOP5, OP_NOP6, OP_NOP7,
     OP_NOP8, OP_NOP9, OP_NOP10}

\* a switch whose OP_IF takes its element also where it is not executed
ExecItemIfTakes(a, h, item, ver) ==
    IF item.push THEN Break(PushStack(a, <<Bytes(item.data)>>), h)
    ELSE CASE item.op = OP_0 -> Break(PushStack(a, <<Bytes(<<>>)>>), h)
           [] item.op >= OP_1 /\ item.op <= OP_16 ->
                Break(PushStack(a, <<Bytes(<<item.op - 80>>)>>), h)
           [] item.op \in NopOps -> Break(a, h)
           [] item.op \in {OP_IF, OP_NOTIF} ->
                Break([takeElements(a, 1).a EXCEPT
                          !.cs = cs_push_back(@, FALSE)], h)
           [] item.op = OP_ELSE ->
                IF cs_empty(a.cs)
                THEN Return(a, h, SCRIPT_ERR_UNBALANCED_CONDITIONAL)
                ELSE Break([a EXCEPT !.cs = cs_toggle_top(@)], h)
           [] item.op = OP_ENDIF ->
                IF cs_empty(a.cs)
                THEN Return(a, h, SCRIPT_ERR_UNBALANCED_CONDITIONAL)
                ELSE Break([a EXCEPT !.cs = cs_pop_back(@)], h)
           [] item.op = OP_VERIFY -> VerifyOr(Break(a, h), SCRIPT_ERR_VERIFY)
           [] item.op = OP_RETURN -> Return(a, h, SCRIPT_ERR_OP_RETURN)
           [] item.op \in StackOps -> ExecStackOp(a, h, item.op)
           [] item.op \in NodeOps -> ExecNodeOp(a, h, item.op, ver)
           [] item.op \in {OP_CHECKMULTISIG, OP_CHECKMULTISIGVERIFY} ->
                ExecCheckMultisig(a, h, item.op, ver)
           [] OTHER -> Return(a, h, SCRIPT_ERR_BAD_OPCODE)

\* The body of one iteration for an item that is not skipped and spawns no
\* fork (lines 198-505): a push, or the switch on the opcode.  An OP_IF or
\* OP_NOTIF comes here only with fExec false.
ExecItem(a, h, item, ver) ==
    IF item.push THEN Break(PushStack(a, <<Bytes(item.data)>>), h)
    ELSE CASE item.op = OP_0 -> Break(PushStack(a, <<Bytes(<<>>)>>), h)
           [] item.op >= OP_1 /\ item.op <= OP_16 ->
                Break(PushStack(a, <<Bytes(<<item.op - 80>>)>>), h)
           [] item.op \in NopOps -> Break(a, h)
           [] item.op \in {OP_IF, OP_NOTIF} ->
                Break([a EXCEPT !.cs = cs_push_back(@, FALSE)], h)
           [] item.op = OP_ELSE ->
                IF cs_empty(a.cs)
                THEN Return(a, h, SCRIPT_ERR_UNBALANCED_CONDITIONAL)
                ELSE Break([a EXCEPT !.cs = cs_toggle_top(@)], h)
           [] item.op = OP_ENDIF ->
                IF cs_empty(a.cs)
                THEN Return(a, h, SCRIPT_ERR_UNBALANCED_CONDITIONAL)
                ELSE Break([a EXCEPT !.cs = cs_pop_back(@)], h)
           [] item.op = OP_VERIFY -> VerifyOr(Break(a, h), SCRIPT_ERR_VERIFY)
           [] item.op = OP_RETURN -> Return(a, h, SCRIPT_ERR_OP_RETURN)
           [] item.op \in StackOps -> ExecStackOp(a, h, item.op)
           [] item.op \in NodeOps -> ExecNodeOp(a, h, item.op, ver)
           [] item.op \in {OP_CHECKMULTISIG, OP_CHECKMULTISIGVERIFY} ->
                ExecCheckMultisig(a, h, item.op, ver)
           [] OTHER -> Return(a, h, SCRIPT_ERR_BAD_OPCODE)

\* lines 516-518: the check that ends every iteration that is not skipped
StackSizeExceeded(a) == Len(a.stack) + Len(a.altstack) > 1000

\* the minimal-if rule applied to every segwit script, whatever the rules
MinimalIfAnySegwit(ver, rul) ==
    ver = ScriptVersion.SEGWITV1 \/ ver = ScriptVersion.SEGWITV0

\* line 232: whether the minimal-if rule applies
MinimalIf(ver, rul) ==
    ver = ScriptVersion.SEGWITV1
    \/ (ver = ScriptVersion.SEGWITV0 /\ rul = ScriptRules.ALL)

\* line 239: the error the minimal-if predicate is tagged with
MinimalIfError(ver) ==
    IF ver = ScriptVersion.SEGWITV1
    THEN SCRIPT_ERR_TAPSCRIPT_MINIMALIF
    ELSE SCRIPT_ERR_MINIMALIF

----------------------------------------------------------------------------
(* Util: comparing and normalizing expressions                              *)

RECURSIVE BufferCompareFrom(_, _, _)
\* the for loop of bufferCompare, from index i (1-based) on
BufferCompareFrom(buf1, buf2, i) ==
    IF i <= Len(buf1) /\ i <= Len(buf2)
    THEN IF buf1[i] < buf2[i] THEN 0 - 1
         ELSE IF buf1[i] > buf2[i] THEN 1
         ELSE BufferCompareFrom(buf1, buf2, i + 1)
    ELSE IF Len(buf1) < Len(buf2) THEN 0 - 1
    ELSE IF Len(buf1) > Len(buf2) THEN 1
    ELSE 0

\* Util.bufferCompare
bufferCompare(buf1, buf2) == BufferCompareFrom(buf1, buf2, 1)

RECURSIVE exprEqual(_, _, _)
\* Util.exprEqual, the nodes read from heap h
exprEqual(h, a, b) ==
    IF IsApp(a) /\ IsApp(b)
    THEN /\ Len(h[a.ref].args) = Len(h[b.ref].args)
         /\ \A i \in 1..Len(h[a.ref].args) :
                exprEqual(h, h[a.ref].args[i], h[b.ref].args[i])
         /\ h[a.ref].opcode = h[b.ref].opcode
    ELSE IF IsVar(a) /\ IsVar(b) THEN a.var = b.var
    ELSE IF IsBytes(a) /\ IsBytes(b) THEN bufferCompare(a.bytes, b.bytes) = 0
    ELSE FALSE

\* Util.exprPriority[exprType(e)]
exprPriority(e) == IF IsVar(e) THEN 2 ELSE IF IsApp(e) THEN 1 ELSE 0

RECURSIVE exprCompareFn(_, _, _)
RECURSIVE CompareArgsFrom(_, _, _, _)
\* the for loop of exprCompareFn over the arguments: the first non-zero result
CompareArgsFrom(h, xs, ys, i) ==
    LET First(s) == IF s # 0 THEN s ELSE CompareArgsFrom(h, xs, ys, i + 1)
    IN  IF i > Len(xs) THEN 0 ELSE First(exprCompareFn(h, xs[i], ys[i]))

\* Util.exprCompareFn, the nodes read from heap h
exprCompareFn(h, a, b) ==
    IF IsApp(a) /\ IsApp(b)
    THEN IF h[a.ref].opcode # h[b.ref].opcode
         THEN h[a.ref].opcode - h[b.ref].opcode
         ELSE IF Len(h[a.ref].args) # Len(h[b.ref].args)
         THEN Len(h[a.ref].args) - Len(h[b.ref].args)
         ELSE CompareArgsFrom(h, h[a.ref].args, h[b.ref].args, 1)
    ELSE IF IsVar(a) /\ IsVar(b) THEN a.var - b.var
    ELSE IF IsBytes(a) /\ IsBytes(b) THEN bufferCompare(a.bytes, b.bytes)
    ELSE exprPriority(b) - exprPriority(a)

RECURSIVE InsertSorted(_, _, _)
\* e put behind the last element of the sorted xs that does not compare above it
InsertSorted(h, xs, e) ==
    IF Len(xs) = 0 THEN <<e>>
    ELSE IF exprCompareFn(h, xs[Len(xs)], e) > 0
         THEN Append(InsertSorted(h, SubSeq(xs, 1, Len(xs) - 1), e), xs[Len(xs)])
         ELSE Append(xs, e)

RECURSIVE SortFrom(_, _, _, _)
\* the elements exprs[i], exprs[i+1], ... inserted into the sorted acc
SortFrom(h, exprs, acc, i) ==
    IF i > Len(exprs) THEN acc
    ELSE SortFrom(h, exprs, InsertSorted(h, acc, exprs[i]), i + 1)

\* exprs.sort(exprCompareFn): Array.prototype.sort is stable
SortExprs(h, exprs) == SortFrom(h, exprs, <<>>, 1)

\* a list of kept opcodes that lacks OP_SUB
KeepArgOrderNoSub ==
    {OP_CHECKMULTISIG, OP_CHECKSIG, OP_GREATERTHAN, OP_GREATERTHANOREQUAL,
     OP_LESSTHAN, OP_LESSTHANOREQUAL, OP_WITHIN}

\* the opcodes whose args normalizeExprs leaves in place
KeepArgOrder ==
    {OP_CHECKMULTISIG, OP_CHECKSIG, OP_GREATERTHAN, OP_GREATERTHANOREQUAL,
     OP_LESSTHAN, OP_LESSTHANOREQUAL, OP_SUB, OP_WITHIN}

RECURSIVE normalizeExprs(_, _)
RECURSIVE NormalizeFrom(_, _, _)
\* the for loop of normalizeExprs: the heap after the args arrays of
\* s[i], s[i+1], ... were normalized in place
NormalizeFrom(h, s, i) ==
    LET Stored(r) == NormalizeFrom([r.h EXCEPT ![s[i].ref].args = r.exprs], s, i + 1)
    IN  IF i > Len(s) THEN h
        ELSE IF IsApp(s[i]) /\ h[s[i].ref].opcode \notin KeepArgOrder
        THEN Stored(normalizeExprs(h, h[s[i].ref].args))
        ELSE NormalizeFrom(h, s, i + 1)

\* Util.normalizeExprs: the array sorted, [h |-> the heap after, exprs |-> it]
normalizeExprs(h, exprs) ==
    LET Sorted(s) == [h |-> NormalizeFrom(h, s, 1), exprs |-> s]
    IN  Sorted(SortExprs(h, exprs))

----------------------------------------------------------------------------
(* ScriptAnalyzer.cleanupConditions                                         *)

\* a negation test that knows OP_NOT only
IsNotOpNotOnly(h, e) == IsApp(e) /\ h[e.ref].opcode = OP_NOT

\* 'opcode' in e && (e.opcode === OP_NOT || e.opcode === INTERNAL_NOT)
IsNot(h, e) == IsApp(e) /\ h[e.ref].opcode \in {OP_NOT, INTERNAL_NOT}

\* ScriptAnalyzer.evalExpr: [defined |-> FALSE] for undefined; else the
\* Uint8Array or the new node it returns (never a boolean: Bool.encode and
\* Bool.not return Uint8Arrays)
evalExpr(h, expr) ==
    IF ~IsApp(expr) THEN [defined |-> FALSE, e |-> expr, h |-> h]
    ELSE IF h[expr.ref].opcode = OP_EQUAL
    THEN IF IsBytes(h[expr.ref].args[1]) /\ IsBytes(h[expr.ref].args[2])
         THEN [defined |-> TRUE, h |-> h,
               e |-> Bytes(BoolEncode(
                       bufferCompare(h[expr.ref].args[1].bytes,
                                     h[expr.ref].args[2].bytes) = 0))]
         ELSE [defined |-> FALSE, e |-> expr, h |-> h]
    ELSE IF h[expr.ref].opcode \in {INTERNAL_NOT, OP_NOT}
    THEN IF IsBytes(h[expr.ref].args[1])
         THEN [defined |-> TRUE, h |-> h,
               e |-> Bytes(BoolNot(h[expr.ref].args[1].bytes))]
         ELSE IF IsApp(h[expr.ref].args[1])
                 /\ h[h[expr.ref].args[1].ref].opcode = OP_CHECKSIG
         THEN [defined |-> TRUE,
               h |-> Append(h, Node(OP_EQUAL,
                                    <<h[h[expr.ref].args[1].ref].args[1],
                                      Bytes(BoolFALSE)>>,
                                    undefined)),
               e |-> Ref(Len(h) + 1)]
         ELSE [defined |-> FALSE, e |-> expr, h |-> h]
    ELSE [defined |-> FALSE, e |-> expr, h |-> h]

\* xs.splice(k - 1, 1), k 1-based
RemoveAt(xs, k) == SubSeq(xs, 1, k - 1) \o SubSeq(xs, k + 1, Len(xs))

RECURSIVE CleanupK(_, _, _, _)
\* the for loop over k (lines 152-168): [exprs |-> the list after,
\* drop |-> whether the branch was spliced out of conds]
CleanupK(h, exprs, j, k) ==
    IF k > Len(exprs) THEN [exprs |-> exprs, drop |-> FALSE]
    ELSE IF exprEqual(h, exprs[j], exprs[k])
    THEN CleanupK(h, RemoveAt(exprs, k), j, k)
    ELSE IF \/ (IsNot(h, exprs[j])
                /\ exprEqual(h, h[exprs[j].ref].args[1], exprs[k]))
            \/ (IsNot(h, exprs[k])
                /\ exprEqual(h, exprs[j], h[exprs[k].ref].args[1]))
    THEN [exprs |-> exprs, drop |-> TRUE]
    ELSE CleanupK(h, exprs, j, k + 1)

RECURSIVE CleanupJ(_, _, _)
\* the for loop over j (lines 150-186); res is never a boolean, so a
\* returned value (an object, truthy) always replaces exprs[j]
CleanupJ(h, exprs, j) ==
    LET Evaluated(xs, res) ==
            IF res.defined
            THEN CleanupJ(res.h, [xs EXCEPT ![j] = res.e], j)
            ELSE CleanupJ(h, xs, j + 1)
        Compared(inner) ==
            IF inner.drop THEN [h |-> h, exprs |-> inner.exprs, drop |-> TRUE]
            ELSE Evaluated(inner.exprs, evalExpr(h, inner.exprs[j]))
    IN  IF j > Len(exprs) THEN [h |-> h, exprs |-> exprs, drop |-> FALSE]
        ELSE Compared(CleanupK(h, exprs, j, j + 1))

RECURSIVE CleanupI(_, _, _, _)
\* the for loop over i (lines 147-187).  conds holds the spendingConditions
\* arrays themselves, here the identities of the analyzers that own them;
\* os are the analyzer objects, whose arrays the loop edits in place.
CleanupI(h, os, conds, i) ==
    LET Cleaned(r) ==
            CleanupI(r.h, [os EXCEPT ![conds[i]].spendingConditions = r.exprs],
                     IF r.drop THEN RemoveAt(conds, i) ELSE conds,
                     IF r.drop THEN i ELSE i + 1)
        Normalized(n) == Cleaned(CleanupJ(n.h, n.exprs, 1))
    IN  IF i > Len(conds) THEN [h |-> h, objs |-> os, conds |-> conds]
        ELSE Normalized(normalizeExprs(h, os[conds[i]].spendingConditions))

RECURSIVE Resolve(_, _)
\* an expression as Util.exprToString walks it: the tree below a reference
Resolve(h, e) ==
    IF IsApp(e)
    THEN [type |-> "opcode", opcode |-> h[e.ref].opcode,
          args |-> [i \in 1..Len(h[e.ref].args) |-> Resolve(h, h[e.ref].args[i])]]
    ELSE e

\* ScriptAnalyzer.printSpendingConditions: the disjunction handed to
\* console.log, one list of conjuncts per branch
printSpendingConditions(h, conds) ==
    [i \in 1..Len(conds) |-> [j \in 1..Len(conds[i]) |-> Resolve(h, conds[i][j])]]

\* ScriptAnalyzer.cleanupConditions with registry reg: the heap and the
\* objects after, the arrays left in conds, and the text it prints
cleanupConditions(h, os, reg) ==
    LET Printed(r) ==
            [h |-> r.h, objs |-> r.objs, conds |-> r.conds,
             text |-> printSpendingConditions(r.h,
                        [i \in 1..Len(r.conds) |->
                            r.objs[r.conds[i]].spendingConditions])]
    IN  Printed(CleanupI(h, os, reg, 1))

----------------------------------------------------------------------------
(* ScriptAnalyzer.analyze: forks and the end of the script                  *)

\* line 236: the flag this pushes on its condition stack
ThisFlag(op) == op = OP_IF

\* a fork that pushes the flag of its parent
ForkFlagSame(op) == op = OP_IF

\* line 237: the flag the fork pushes on its condition stack
ForkFlag(op) == op # OP_IF

\* case OP_IF, OP_NOTIF with fExec (lines 231-249), up to the call of
\* fork.analyze(): the two analyzers and the heap
ForkOnIf(a, h, op, ver, rul) ==
    LET Forked(t) ==
            IF MinimalIf(ver, rul)
            THEN [this |-> [t.a EXCEPT
                              !.cs = cs_push_back(@, ThisFlag(op)),
                              !.spendingConditions = Append(@, Ref(Len(h) + 1))],
                  fork |-> [CloneAnalyzer(t.a) EXCEPT
                              !.cs = cs_push_back(@, ForkFlag(op)),
                              !.spendingConditions = Append(@, Ref(Len(h) + 2))],
                  h |-> h \o <<Node(OP_EQUAL, <<t.res[1], Bytes(BoolTRUE)>>,
                                    MinimalIfError(ver)),
                               Node(OP_EQUAL, <<t.res[1], Bytes(BoolFALSE)>>,
                                    MinimalIfError(ver))>>]
            ELSE [this |-> [t.a EXCEPT
                              !.cs = cs_push_back(@, ThisFlag(op)),
                              !.spendingConditions = Append(@, t.res[1])],
                  fork |-> [CloneAnalyzer(t.a) EXCEPT
                              !.cs = cs_push_back(@, ForkFlag(op)),
                              !.spendingConditions = Append(@, Ref(Len(h) + 1))],
                  h |-> Append(h, Node(INTERNAL_NOT, <<t.res[1]>>, undefined))]
    IN  Forked(takeElements(a, 1))

\* an OP_IFDUP that clones the analyzer after the duplicate was pushed
ForkOnIfDupLate(a, h) ==
    LET Forked(r) ==
            [this |-> [r.a EXCEPT !.spendingConditions = Append(@, r.res[1]),
                                  !.stack = Append(@, r.res[1])],
             fork |-> [CloneAnalyzer(r.a) EXCEPT
                         !.stack = Append(@, r.res[1]),
                         !.spendingConditions = Append(@, Ref(Len(h) + 1))],
             h |-> Append(h, Node(INTERNAL_NOT, <<r.res[1]>>, undefined))]
    IN  Forked(readElements(a, 1))

\* case OP_IFDUP (lines 317-321), up to the call of fork.analyze()
ForkOnIfDup(a, h) ==
    LET Forked(r) ==
            [this |-> [r.a EXCEPT !.spendingConditions = Append(@, r.res[1]),
                                  !.stack = Append(@, r.res[1])],
             fork |-> [CloneAnalyzer(r.a) EXCEPT
                         !.spendingConditions = Append(@, Ref(Len(h) + 1))],
             h |-> Append(h, Node(INTERNAL_NOT, <<r.res[1]>>, undefined))]
    IN  Forked(readElements(a, 1))

\* the end checks with the clean-stack test put first
EndChecksCleanFirst(a) ==
    LET Verified(v) ==
            [a |-> v.a,
             out |-> IF v.ok THEN undefined ELSE SCRIPT_ERR_EVAL_FALSE]
    IN  IF Len(a.stack) > 1
        THEN [a |-> a, out |-> SCRIPT_ERR_CLEANSTACK]
        ELSE IF ~cs_empty(a.cs)
        THEN [a |-> a, out |-> SCRIPT_ERR_UNBALANCED_CONDITIONAL]
        ELSE Verified(verify(a))

\* lines 520-528: what analyze() does once the loop is left
EndChecks(a) ==
    LET Verified(v) ==
            [a |-> v.a,
             out |-> IF v.ok THEN undefined ELSE SCRIPT_ERR_EVAL_FALSE]
    IN  IF ~cs_empty(a.cs)
        THEN [a |-> a, out |-> SCRIPT_ERR_UNBALANCED_CONDITIONAL]
        ELSE IF Len(a.stack) > 1
        THEN [a |-> a, out |-> SCRIPT_ERR_CLEANSTACK]
        ELSE Verified(verify(a))

----------------------------------------------------------------------------
(* The scripts analysed                                                     *)

\* the longest script of the exhaustive enumeration
MaxLen == 4

\* the items the enumerated scripts are made of
Items ==
    {Push(<<1>>), Op(OP_0), Op(OP_IF), Op(OP_NOTIF), Op(OP_ELSE), Op(OP_ENDIF),
     Op(OP_IFDUP), Op(OP_VERIF)}

\* 1000 witness elements moved to the altstack, then OP_IFDUP OP_DROP
StackLimitScript ==
    [i \in 1..1002 |->
        IF i <= 1000 THEN Op(OP_TOALTSTACK)
        ELSE IF i = 1001 THEN Op(OP_IFDUP) ELSE Op(OP_DROP)]

\* scripts around OP_NUMEQUALVERIFY
NumEqualScripts ==
    {<<Op(OP_NUMEQUALVERIFY)>>,
     <<Op(OP_NUMEQUALVERIFY), Op(OP_1)>>,
     <<Op(OP_1), Op(OP_1), Op(OP_NUMEQUALVERIFY)>>,
     <<Op(OP_1), Op(OP_2), Op(OP_NUMEQUALVERIFY), Op(OP_1)>>,
     <<Op(OP_1), Op(OP_1), Op(OP_NUMEQUAL)>>}

\* scripts around OP_PICK and OP_ROLL: the index drawn from the empty stack,
\* symbolic, longer than 4 bytes, negative, and in range
PickRollScripts ==
    {<<Op(OP_PICK)>>,
     <<Op(OP_ROLL)>>,
     <<Op(OP_SHA256), Op(OP_PICK)>>,
     <<Op(OP_SHA256), Op(OP_ROLL)>>,
     <<Push(<<1, 2, 3, 4, 5>>), Op(OP_PICK)>>,
     <<Push(<<1, 2, 3, 4, 5>>), Op(OP_ROLL)>>,
     <<Push(<<129>>), Op(OP_PICK)>>,
     <<Push(<<129>>), Op(OP_ROLL)>>,
     <<Op(OP_0), Op(OP_PICK)>>,
     <<Op(OP_3), Op(OP_2), Op(OP_1), Op(OP_ROLL), Op(OP_DROP), Op(OP_DROP)>>,
     <<Op(OP_1), Op(OP_PICK), Op(OP_DROP)>>,
     <<Op(OP_IF), Op(OP_PICK), Op(OP_ENDIF)>>,
     <<Op(OP_NOTIF), Op(OP_PICK), Op(OP_ENDIF)>>}

\* scripts whose conditions partial evaluation rewrites to a concrete value
EvalScripts ==
    {<<Op(OP_1), Op(OP_1), Op(OP_EQUAL)>>,
     <<Op(OP_1), Op(OP_0), Op(OP_EQUAL)>>,
     <<Op(OP_0), Op(OP_NOT)>>,
     <<Op(OP_1), Op(OP_NOT)>>,
     <<Op(OP_1), Op(OP_1), Op(OP_EQUALVERIFY), Op(OP_SHA256)>>,
     <<Op(OP_IF), Op(OP_1), Op(OP_0), Op(OP_EQUALVERIFY), Op(OP_ENDIF)>>,
     <<Op(OP_1), Op(OP_1), Op(OP_EQUALVERIFY), Op(OP_2), Op(OP_2), Op(OP_EQUAL)>>,
     <<Op(OP_DUP), Push(<<2>>), Op(OP_CHECKSIG), Op(OP_NOT), Op(OP_VERIFY),
       Op(OP_0), Op(OP_EQUAL), Op(OP_NOT)>>,
     <<Op(OP_DUP), Op(OP_VERIFY), Op(OP_NOT)>>}

\* scripts around the pre-scan: each disabled opcode alone, one in a region
\* that is never executed, and data pushes of the same byte values
DisabledScripts ==
    {<<Op(d)>> : d \in disabledOpcodes}
    \cup {<<Push(<<d>>)>> : d \in disabledOpcodes}
    \cup {<<Op(OP_0), Op(OP_CAT)>>,
          <<Op(OP_0), Op(OP_IF), Op(OP_CAT), Op(OP_ENDIF)>>,
          <<Op(OP_1), Op(OP_RETURN), Op(OP_MUL)>>}

\* the byte strings that stand for <h> in the pay-to-pubkey-hash script
HashSamples == {<<17>>, <<170, 187>>, <<>>}

\* OP_DUP OP_HASH160 <h> OP_EQUALVERIFY OP_CHECKSIG
PayToPubkeyHash(h) ==
    <<Op(OP_DUP), Op(OP_HASH160), Push(h), Op(OP_EQUALVERIFY), Op(OP_CHECKSIG)>>

\* the byte strings that stand for <sig> and <pk>
SigSamples == {<<48>>, <<48, 1>>}

PubkeySamples == {<<2>>, <<3, 7>>}

\* <01> OP_NOT OP_IF <sig> <pk> OP_CHECKSIG OP_ELSE OP_RETURN OP_ENDIF
NotIfCheckSig(sig, pk) ==
    <<Push(<<1>>), Op(OP_NOT), Op(OP_IF), Push(sig), Push(pk), Op(OP_CHECKSIG),
      Op(OP_ELSE), Op(OP_RETURN), Op(OP_ENDIF)>>

\* OP_0 <sig1> <sig2> <2> <pk1> <pk2> <pk3> <3> OP_CHECKMULTISIG
TwoOfThree(sig1, sig2, pk1, pk2, pk3) ==
    <<Op(OP_0), Push(sig1), Push(sig2), Push(<<2>>), Push(pk1), Push(pk2),
      Push(pk3), Push(<<3>>), Op(OP_CHECKMULTISIG)>>

\* scripts around OP_CHECKMULTISIG: the pubkey count drawn from the empty
\* stack, symbolic, longer than 4 bytes, out of range; then the same for the
\* signature count; then well-formed calls
MultisigScripts ==
    {<<Op(OP_CHECKMULTISIG)>>,
     <<Op(OP_CHECKMULTISIGVERIFY)>>,
     <<Op(OP_SHA256), Op(OP_CHECKMULTISIG)>>,
     <<Push(<<1, 2, 3, 4, 5>>), Op(OP_CHECKMULTISIG)>>,
     <<Push(<<21>>), Op(OP_CHECKMULTISIG)>>,
     <<Op(OP_1NEGATE), Op(OP_CHECKMULTISIG)>>,
     <<Op(OP_1), Op(OP_CHECKMULTISIG)>>,
     <<Op(OP_0), Op(OP_CHECKMULTISIG)>>,
     <<Op(OP_SHA256), Push(<<2>>), Op(OP_0), Op(OP_CHECKMULTISIG)>>,
     <<Push(<<1, 2, 3, 4, 5>>), Push(<<2>>), Op(OP_1), Op(OP_CHECKMULTISIG)>>,
     <<Op(OP_2), Push(<<2>>), Op(OP_1), Op(OP_CHECKMULTISIGVERIFY)>>,
     <<Op(OP_1NEGATE), Push(<<2>>), Op(OP_1), Op(OP_CHECKMULTISIG)>>,
     <<Op(OP_0), Op(OP_0), Op(OP_0), Op(OP_CHECKMULTISIG)>>,
     <<Op(OP_0), Push(<<48>>), Op(OP_1), Push(<<2>>), Op(OP_1),
       Op(OP_CHECKMULTISIGVERIFY)>>,
     <<Op(OP_IF), Op(OP_CHECKMULTISIG), Op(OP_ENDIF)>>}

\* scripts around the verifying opcodes: operands drawn from the empty
\* stack, concrete and equal, concrete and different
VerifyScripts ==
    {<<Op(OP_EQUALVERIFY)>>,
     <<Op(OP_1), Op(OP_2), Op(OP_EQUALVERIFY)>>,
     <<Op(OP_1), Op(OP_2), Op(OP_EQUALVERIFY), Op(OP_1)>>,
     <<Op(OP_CHECKSIGVERIFY)>>,
     <<Push(<<48>>), Push(<<2>>), Op(OP_CHECKSIGVERIFY), Op(OP_1)>>,
     <<Op(OP_0), Op(OP_0), Op(OP_CHECKSIGVERIFY)>>,
     <<Op(OP_0), Op(OP_0), Op(OP_0), Op(OP_CHECKMULTISIGVERIFY), Op(OP_1)>>}

\* the scripts of the worked examples
ExampleScripts ==
    {PayToPubkeyHash(h) : h \in HashSamples}
    \cup {NotIfCheckSig(sig, pk) : sig \in SigSamples, pk \in PubkeySamples}
    \cup {TwoOfThree(<<48>>, sig2, <<2>>, <<3, 7>>, pk3) :
            sig2 \in SigSamples, pk3 \in PubkeySamples}

\* scripts beyond the enumeration
ExtraScripts ==
    {StackLimitScript,
     <<Op(OP_IF), Op(OP_ELSE), Op(OP_RETURN), Op(OP_ENDIF)>>,
     <<Op(OP_IF), Op(OP_ENDIF), Op(OP_RETURN)>>,
     <<Push(<<0, 128>>)>>,
     <<Push(<<128, 0>>)>>}
    \cup NumEqualScripts \cup PickRollScripts \cup EvalScripts
    \cup DisabledScripts \cup ExampleScripts \cup MultisigScripts
    \cup VerifyScripts

Scripts == UNION {[1..k -> Items] : k \in 0..MaxLen} \cup ExtraScripts

----------------------------------------------------------------------------
(* Spec: ScriptAnalyzer.analyzeScript                                       *)

CSIdle == cond = ConditionStackNew /\ vec = <<>>

\* no ScriptConv call under way
ConvNone ==
    [kind |-> "none", stage |-> "in", n |-> 0, v |-> FALSE, b |-> <<>>,
     enc |-> <<>>, num |-> 0, dec |-> FALSE, decb |-> FALSE]

ConvIdle == conv = ConvNone

\* no block template loaded
TxIdle ==
    /\ template = [transactions |-> <<>>, coinbasevalue |-> 0]
    /\ txobjs = <<>>

\* no call under test has returned, no run is remembered
NoRun == [ran |-> FALSE]

RetIdle == ret = <<>> /\ first = NoRun

Init ==
    /\ script \in Scripts
    /\ version \in {ScriptVersion.LEGACY, ScriptVersion.SEGWITV0,
                    ScriptVersion.SEGWITV1}
    /\ rules \in {ScriptRules.ALL, ScriptRules.CONSENSUS_ONLY}
    /\ objs = <<>>
    /\ heap = <<>>
    /\ branches = <<>>
    /\ callStack = <<>>
    /\ pc = "init"
    /\ status = <<>>
    /\ out = <<>>
    /\ calls = <<>>
    /\ parent = <<>>
    /\ log = <<>>
    /\ printed = <<>>
    /\ shown = <<>>
    /\ result = "none"
    /\ CSIdle
    /\ ConvIdle
    /\ TxIdle
    /\ RetIdle

Active == callStack[Len(callStack)]

\* the active analyzer is at the top of its loop
InLoop ==
    /\ pc = "run"
    /\ callStack # <<>>
    /\ status[Active] = "running"
    /\ objs[Active].scriptOffset < Len(script)

\* the item the active analyzer reads next: this.script[this.scriptOffset++]
CurItem == script[objs[Active].scriptOffset + 1]

fExec == cs_all_true(objs[Active].cs)

IsForkItem(item) ==
    /\ ~item.push
    /\ fExec
    /\ item.op \in {OP_IF, OP_NOTIF, OP_IFDUP}

\* analyzeScript, lines 79-86: the pre-scan, the root, the call of analyze()
AnalyzeScript ==
    /\ pc = "init"
    /\ IF \E i \in 1..Len(script) :
             ~script[i].push /\ script[i].op \in disabledOpcodes
       THEN /\ pc' = "done"
            /\ result' = "SCRIPT_ERR_DISABLED_OPCODE"
            /\ UNCHANGED <<objs, branches, callStack, status, out, calls, parent>>
       ELSE /\ objs' = <<NewAnalyzer>>
            /\ branches' = Register(<<>>, 1)
            /\ callStack' = <<1>>
            /\ status' = <<"running">>
            /\ out' = <<undefined>>
            /\ calls' = <<1>>
            /\ parent' = <<0>>
            /\ pc' = "run"
            /\ UNCHANGED result
    /\ UNCHANGED <<script, version, rules, heap, log, printed, shown,
                   cond, vec, conv, txVars, ret, first>>

\* an iteration that ends at the continue of line 196
SkipItem ==
    /\ InLoop
    /\ Skipped(fExec, CurItem)
    /\ objs' = [objs EXCEPT ![Active].scriptOffset = @ + 1]
    /\ UNCHANGED <<script, version, rules, heap, branches, callStack, pc, status,
                   out, calls, parent, log, printed, shown, result,
                   cond, vec, conv, txVars, ret, first>>

\* an iteration of analyzers that share one stack array, as a constructor
\* without arg.stack.slice() would leave them
IteratedSharedStack(r) ==
    /\ objs' = [id \in 1..Len(objs) |->
                  IF id = Active THEN r.a
                  ELSE [objs[id] EXCEPT !.stack = r.a.stack]]
    /\ heap' = r.h
    /\ IF r.threw
       THEN \* the exception unwinds every analyze() up to runAnalyzer
            /\ pc' = "threw"
            /\ result' = "threw"
            /\ callStack' = <<>>
            /\ UNCHANGED <<status, out>>
       ELSE /\ UNCHANGED <<pc, result, callStack>>
            /\ IF r.out # undefined
               THEN /\ status' = [status EXCEPT ![Active] = "returned"]
                    /\ out' = [out EXCEPT ![Active] = r.out]
               ELSE IF StackSizeExceeded(r.a)
               THEN /\ status' = [status EXCEPT ![Active] = "returned"]
                    /\ out' = [out EXCEPT ![Active] = SCRIPT_ERR_STACK_SIZE]
               ELSE UNCHANGED <<status, out>>

\* what the end of an iteration that left r makes of the active analyzer
Iterated(r) ==
    /\ objs' = [objs EXCEPT ![Active] = r.a]
    /\ heap' = r.h
    /\ IF r.threw
       THEN \* the exception unwinds every analyze() up to runAnalyzer
            /\ pc' = "threw"
            /\ result' = "threw"
            /\ callStack' = <<>>
            /\ UNCHANGED <<status, out>>
       ELSE /\ UNCHANGED <<pc, result, callStack>>
            /\ IF r.out # undefined
               THEN /\ status' = [status EXCEPT ![Active] = "returned"]
                    /\ out' = [out EXCEPT ![Active] = r.out]
               ELSE IF StackSizeExceeded(r.a)
               THEN /\ status' = [status EXCEPT ![Active] = "returned"]
                    /\ out' = [out EXCEPT ![Active] = SCRIPT_ERR_STACK_SIZE]
               ELSE UNCHANGED <<status, out>>

\* an iteration that runs a case of the switch and spawns no fork
ExecStep ==
    /\ InLoop
    /\ ~Skipped(fExec, CurItem)
    /\ ~IsForkItem(CurItem)
    /\ Iterated(ExecItem([objs[Active] EXCEPT !.scriptOffset = @ + 1], heap,
                         CurItem, version))
    /\ UNCHANGED <<script, version, rules, branches, calls, parent, log,
                   printed, shown, cond, vec, conv, txVars, ret, first>>

\* a fork that is constructed and registered while its analyze() is put off
SpawnDeferred(f) ==
    /\ objs' = Append([objs EXCEPT ![Active] = f.this], f.fork)
    /\ heap' = f.h
    /\ branches' = Register(branches, Len(objs) + 1)
    /\ status' = Append(status, "running")
    /\ out' = Append(out, undefined)
    /\ calls' = Append(calls, 0)
    /\ parent' = Append(parent, Active)
    /\ UNCHANGED <<script, version, rules, callStack, pc, log, printed, shown,
                   result, cond, vec, conv, txVars, ret, first>>

\* a fork that enters the registry at either end
SpawnAnyOrder(f) ==
    /\ objs' = Append([objs EXCEPT ![Active] = f.this], f.fork)
    /\ heap' = f.h
    /\ branches' \in {Register(branches, Len(objs) + 1),
                      RegisterFront(branches, Len(objs) + 1)}
    /\ callStack' = Append(callStack, Len(objs) + 1)
    /\ status' = Append(status, "running")
    /\ out' = Append(out, undefined)
    /\ calls' = Append(calls, 1)
    /\ parent' = Append(parent, Active)
    /\ UNCHANGED <<script, version, rules, pc, log, printed, shown, result,
                   cond, vec, conv, txVars, ret, first>>

\* the fork f of the active analyzer is constructed and its analyze() entered
Spawn(f) ==
    /\ objs' = Append([objs EXCEPT ![Active] = f.this], f.fork)
    /\ heap' = f.h
    /\ branches' = Register(branches, Len(objs) + 1)
    /\ callStack' = Append(callStack, Len(objs) + 1)
    /\ status' = Append(status, "running")
    /\ out' = Append(out, undefined)
    /\ calls' = Append(calls, 1)
    /\ parent' = Append(parent, Active)
    /\ UNCHANGED <<script, version, rules, pc, log, printed, shown, result,
                   cond, vec, conv, txVars, ret, first>>

\* an executed OP_IF or OP_NOTIF, up to fork.analyze()
ForkIf ==
    /\ InLoop
    /\ ~CurItem.push
    /\ CurItem.op \in {OP_IF, OP_NOTIF}
    /\ fExec
    /\ Spawn(ForkOnIf([objs[Active] EXCEPT !.scriptOffset = @ + 1], heap,
                      CurItem.op, version, rules))

\* an executed OP_IFDUP, up to fork.analyze()
ForkIfDup ==
    /\ InLoop
    /\ ~CurItem.push
    /\ CurItem.op = OP_IFDUP
    /\ fExec
    /\ Spawn(ForkOnIfDup([objs[Active] EXCEPT !.scriptOffset = @ + 1], heap))

\* the active analyzer returns what r holds
Ended(r) ==
    /\ objs' = [objs EXCEPT ![Active] = r.a]
    /\ out' = [out EXCEPT ![Active] = r.out]

\* the loop is left: lines 520-528
EndOfScript ==
    /\ pc = "run"
    /\ callStack # <<>>
    /\ status[Active] = "running"
    /\ objs[Active].scriptOffset >= Len(script)
    /\ Ended(EndChecks(objs[Active]))
    /\ status' = [status EXCEPT ![Active] = "returned"]
    /\ UNCHANGED <<script, version, rules, heap, branches, callStack, pc,
                   calls, parent, log, printed, shown, result,
                   cond, vec, conv, txVars, ret, first>>

\* the analyzer whose case of the switch called the active one's analyze()
Caller == callStack[Len(callStack) - 1]

\* fork.analyze() returns (its value is dropped); the parent breaks out of
\* the switch and runs the check of line 516
ForkReturn ==
    /\ pc = "run"
    /\ Len(callStack) > 1
    /\ status[Active] = "returned"
    /\ IF StackSizeExceeded(objs[Caller])
       THEN /\ status' = [status EXCEPT ![Caller] = "returned"]
            /\ out' = [out EXCEPT ![Caller] = SCRIPT_ERR_STACK_SIZE]
       ELSE UNCHANGED <<status, out>>
    /\ callStack' = SubSeq(callStack, 1, Len(callStack) - 1)
    /\ UNCHANGED <<script, version, rules, objs, heap, branches, pc, calls,
                   parent, log, printed, shown, result,
                   cond, vec, conv, txVars, ret, first>>

\* this.cleanupConditions() of line 90: what is printed, and of whom
Reported(c) ==
    /\ printed' = Append(printed, c.text)
    /\ shown' = Append(shown, c.conds)
    /\ objs' = c.objs
    /\ heap' = c.h

\* analyzer.analyze() returns to analyzeScript: lines 87-91
AnalyzeReturn ==
    /\ pc = "run"
    /\ Len(callStack) = 1
    /\ status[Active] = "returned"
    /\ IF out[Active] # undefined
       THEN /\ log' = Append(log, [error |-> out[Active],
                                   stack |-> objs[Active].stack])
            /\ UNCHANGED <<printed, shown, objs, heap>>
       ELSE /\ Reported(cleanupConditions(heap, objs, branches))
            /\ UNCHANGED log
    /\ pc' = "done"
    /\ result' = "undefined"
    /\ callStack' = <<>>
    /\ UNCHANGED <<script, version, rules, branches, status, out, calls,
                   parent, cond, vec, conv, txVars, ret, first>>

Next ==
    \/ AnalyzeScript
    \/ SkipItem
    \/ ExecStep
    \/ ForkIf
    \/ ForkIfDup
    \/ EndOfScript
    \/ ForkReturn
    \/ AnalyzeReturn

Spec == Init /\ [][Next]_vars

\* analyzeScript runs on one thread to completion: a step of analyze() that
\* can be taken is taken
\* the longest enumerated script of SpecLive
MaxLiveLen == 2

\* the scripts whose OP_CHECKMULTISIG reads a signature count that is a
\* number and not negative; their step properties are checked under Spec
MultisigCountedScripts ==
    {<<Op(OP_0), Op(OP_0), Op(OP_0), Op(OP_CHECKMULTISIG)>>,
     <<Op(OP_2), Push(<<2>>), Op(OP_1), Op(OP_CHECKMULTISIGVERIFY)>>,
     <<Op(OP_0), Push(<<48>>), Op(OP_1), Push(<<2>>), Op(OP_1),
       Op(OP_CHECKMULTISIGVERIFY)>>,
     <<Op(OP_0), Op(OP_0), Op(OP_0), Op(OP_CHECKMULTISIGVERIFY), Op(OP_1)>>}

\* the scripts of SpecLive: the enumeration, and the families with concrete
\* and other numeric operands
LiveScripts ==
    UNION {[1..k -> Items] : k \in 0..MaxLiveLen}
    \cup PickRollScripts
    \cup ((MultisigScripts \cup VerifyScripts) \ MultisigCountedScripts)

InitLive == Init /\ script \in LiveScripts

\* the steps of analyze(): everything up to the return of the root analyzer
Analysis ==
    \/ AnalyzeScript
    \/ SkipItem
    \/ ExecStep
    \/ ForkIf
    \/ ForkIfDup
    \/ EndOfScript
    \/ ForkReturn

SpecLive == InitLive /\ [][Next]_vars /\ WF_vars(Analysis)

----------------------------------------------------------------------------
(* SpecCS: a ConditionStack under arbitrary calls                           *)

\* the deepest nesting SpecCS builds
MaxDepth == 6

AnIdle ==
    /\ script = <<>>
    /\ version = ScriptVersion.LEGACY
    /\ rules = ScriptRules.ALL
    /\ objs = <<>>
    /\ heap = <<>>
    /\ branches = <<>>
    /\ callStack = <<>>
    /\ pc = "idle"
    /\ status = <<>>
    /\ out = <<>>
    /\ calls = <<>>
    /\ parent = <<>>
    /\ log = <<>>
    /\ printed = <<>>
    /\ shown = <<>>
    /\ result = "none"

InitCS == CSIdle /\ AnIdle /\ ConvIdle /\ TxIdle /\ RetIdle

\* cs.push_back(f), next to vec.push_back(f)
CsPush ==
    /\ cond.m_stack_size < MaxDepth
    /\ \E f \in BOOLEAN :
          /\ cond' = cs_push_back(cond, f)
          /\ vec' = Append(vec, f)
    /\ UNCHANGED <<anVars, conv, txVars, ret, first>>

\* cs.pop_back(), next to vec.pop_back()
CsPop ==
    /\ ~cs_empty(cond)
    /\ cond' = cs_pop_back(cond)
    /\ vec' = SubSeq(vec, 1, Len(vec) - 1)
    /\ UNCHANGED <<anVars, conv, txVars, ret, first>>

\* cs.toggle_top(), next to vec.back() = !vec.back()
CsToggle ==
    /\ ~cs_empty(cond)
    /\ cond' = cs_toggle_top(cond)
    /\ vec' = [vec EXCEPT ![Len(vec)] = ~@]
    /\ UNCHANGED <<anVars, conv, txVars, ret, first>>

NextCS == CsPush \/ CsPop \/ CsToggle

SpecCS == InitCS /\ [][NextCS]_vars

----------------------------------------------------------------------------
(* SpecClean: cleanupConditions run twice on given conjunct lists           *)

\* the last element of a sequence that is not empty
Last(s) == s[Len(s)]

\* the longest conjunct list of a lone branch
MaxConjuncts == 3

\* the longest conjunct list of each of two branches
MaxPairConjuncts == 2

\* the expression objects the conjunct lists refer to, as analyze() builds
\* them: predicates that evaluate to a constant, predicates over witness
\* variables, a signature check and its negation
CleanHeap ==
    <<Node(OP_EQUAL, <<Bytes(<<1>>), Bytes(<<1>>)>>, undefined),
      Node(OP_EQUAL, <<Bytes(<<1>>), Bytes(<<>>)>>, undefined),
      Node(OP_SHA256, <<Var(0)>>, undefined),
      Node(OP_NOT, <<Var(0)>>, undefined),
      Node(OP_NOT, <<Bytes(<<>>)>>, undefined),
      Node(OP_CHECKSIG, <<Var(1), Var(0)>>, undefined),
      Node(INTERNAL_NOT, <<Ref(6)>>, undefined),
      Node(OP_EQUAL, <<Bytes(<<2>>), Bytes(<<2>>)>>, undefined)>>

\* what a conjunct list can hold
Conjuncts ==
    {Var(0), Var(1), Bytes(<<1>>), Bytes(<<>>)}
    \cup {Ref(i) : i \in 1..Len(CleanHeap)}

ConjunctLists(n) == UNION {[1..k -> Conjuncts] : k \in 0..n}

\* an analyzer that has collected the conjuncts cs
WithConditions(cs) == [NewAnalyzer EXCEPT !.spendingConditions = cs]

InitClean ==
    /\ CSIdle
    /\ ConvIdle
    /\ TxIdle
    /\ RetIdle
    /\ script = <<>>
    /\ version = ScriptVersion.LEGACY
    /\ rules = ScriptRules.ALL
    /\ heap = CleanHeap
    /\ \/ \E cs \in ConjunctLists(MaxConjuncts) :
             objs = <<WithConditions(cs)>>
       \/ \E cs1 \in ConjunctLists(MaxPairConjuncts),
             cs2 \in ConjunctLists(MaxPairConjuncts) :
             objs = <<WithConditions(cs1), WithConditions(cs2)>>
    /\ branches = [i \in 1..Len(objs) |-> i]
    /\ callStack = <<>>
    /\ pc = "clean0"
    /\ status = [i \in 1..Len(objs) |-> "returned"]
    /\ out = [i \in 1..Len(objs) |-> undefined]
    /\ calls = [i \in 1..Len(objs) |-> 1]
    /\ parent = [i \in 1..Len(objs) |-> i - 1]
    /\ log = <<>>
    /\ printed = <<>>
    /\ shown = <<>>
    /\ result = "none"

\* this.cleanupConditions() on the registry
CleanFirst ==
    /\ pc = "clean0"
    /\ Reported(cleanupConditions(heap, objs, branches))
    /\ pc' = "clean1"
    /\ UNCHANGED <<script, version, rules, branches, callStack, status, out,
                   calls, parent, log, result,
                   cond, vec, conv, txVars, ret, first>>

\* cleanupConditions() once more, on the arrays the first run left in conds
CleanAgain ==
    /\ pc = "clean1"
    /\ Reported(cleanupConditions(heap, objs, Last(shown)))
    /\ pc' = "clean2"
    /\ UNCHANGED <<script, version, rules, branches, callStack, status, out,
                   calls, parent, log, result,
                   cond, vec, conv, txVars, ret, first>>

NextClean == CleanFirst \/ CleanAgain

SpecClean == InitClean /\ [][NextClean]_vars

----------------------------------------------------------------------------
(* SpecConv: the conversions of ScriptConv applied to given inputs           *)

\* every integer up to this magnitude is converted
MaxSmallInt == 300

\* the longest byte string handed to Bool.not and Bool.decode
MaxBytes == 3

\* magnitudes at which the length of the encoding or its sign byte changes
IntEdges ==
    {32767, 32768, 65535, 65536, 8388607, 8388608, 16777215, 16777216,
     2147483647}

\* the arguments of Int.encode: |n| <= 0x7fffffff
IntSamples ==
    (0 - MaxSmallInt)..MaxSmallInt
    \cup IntEdges \cup {0 - e : e \in IntEdges}

\* the bytes that Bool.decode tells apart: zero, the sign bit alone, others
ByteSamples == {0, 1, 128, 255}

\* the arguments of Bool.not and Bool.decode
BytesSamples == UNION {[1..k -> ByteSamples] : k \in 0..MaxBytes}

AnalysisIdle ==
    /\ CSIdle
    /\ script = <<>>
    /\ version = ScriptVersion.LEGACY
    /\ rules = ScriptRules.ALL
    /\ objs = <<>>
    /\ heap = <<>>
    /\ branches = <<>>
    /\ callStack = <<>>
    /\ pc = "conv"
    /\ status = <<>>
    /\ out = <<>>
    /\ calls = <<>>
    /\ parent = <<>>
    /\ log = <<>>
    /\ printed = <<>>
    /\ shown = <<>>
    /\ result = "none"

InitConv ==
    /\ AnalysisIdle
    /\ TxIdle
    /\ RetIdle
    /\ \/ \E n \in IntSamples : conv = [ConvNone EXCEPT !.kind = "int", !.n = n]
       \/ \E v \in BOOLEAN : conv = [ConvNone EXCEPT !.kind = "bool", !.v = v]
       \/ \E b \in BytesSamples :
             conv = [ConvNone EXCEPT !.kind = "bytes", !.b = b]

\* enc = ScriptConv.Int.encode(n)
IntEncodeCall ==
    /\ conv.kind = "int"
    /\ conv.stage = "in"
    /\ conv' = [conv EXCEPT !.enc = IntEncode(conv.n), !.stage = "encoded"]
    /\ UNCHANGED <<anVars, csVars, txVars, ret, first>>

\* num = ScriptConv.Int.decode(enc)
IntDecodeCall ==
    /\ conv.kind = "int"
    /\ conv.stage = "encoded"
    /\ conv' = [conv EXCEPT !.num = IntDecode(conv.enc), !.stage = "decoded"]
    /\ UNCHANGED <<anVars, csVars, txVars, ret, first>>

\* enc = ScriptConv.Bool.encode(v)
BoolEncodeCall ==
    /\ conv.kind = "bool"
    /\ conv.stage = "in"
    /\ conv' = [conv EXCEPT !.enc = BoolEncode(conv.v), !.stage = "encoded"]
    /\ UNCHANGED <<anVars, csVars, txVars, ret, first>>

\* enc = ScriptConv.Bool.not(b), then enc = ScriptConv.Bool.not(enc)
BoolNotCall ==
    /\ conv.kind = "bytes"
    /\ \/ /\ conv.stage = "in"
          /\ conv' = [conv EXCEPT !.enc = BoolNot(conv.b), !.stage = "not"]
       \/ /\ conv.stage = "not"
          /\ conv' = [conv EXCEPT !.enc = BoolNot(conv.enc),
                                  !.stage = "encoded"]
    /\ UNCHANGED <<anVars, csVars, txVars, ret, first>>

\* dec = ScriptConv.Bool.decode(enc), decb = ScriptConv.Bool.decode(b)
BoolDecodeCall ==
    /\ conv.kind \in {"bool", "bytes"}
    /\ conv.stage = "encoded"
    /\ conv' = [conv EXCEPT !.dec = BoolDecode(conv.enc),
                            !.decb = BoolDecode(conv.b),
                            !.stage = "decoded"]
    /\ UNCHANGED <<anVars, csVars, txVars, ret, first>>

NextConv ==
    \/ IntEncodeCall
    \/ IntDecodeCall
    \/ BoolEncodeCall
    \/ BoolNotCall
    \/ BoolDecodeCall

SpecConv == InitConv /\ [][NextConv]_vars

----------------------------------------------------------------------------
(* SpecTwice: analyzeScript run twice on the same script, version and rules *)

\* what a run leaves behind: the registry, the conjunct list of every branch
\* in it, the diagnostics, the output and the value returned or thrown
Outcome ==
    [ran |-> TRUE,
     branches |-> branches,
     conds |-> [i \in 1..Len(branches) |->
                  [j \in 1..Len(objs[branches[i]].spendingConditions) |->
                      Resolve(heap, objs[branches[i]].spendingConditions[j])]],
     log |-> log,
     printed |-> printed,
     result |-> result]

\* runAnalyzer has returned
RunOver == pc \in {"done", "threw"}

\* the first run is remembered and runAnalyzer is called again
Rerun ==
    /\ RunOver
    /\ first = NoRun
    /\ first' = Outcome
    /\ objs' = <<>>
    /\ heap' = <<>>
    /\ branches' = <<>>
    /\ callStack' = <<>>
    /\ pc' = "init"
    /\ status' = <<>>
    /\ out' = <<>>
    /\ calls' = <<>>
    /\ parent' = <<>>
    /\ log' = <<>>
    /\ printed' = <<>>
    /\ shown' = <<>>
    /\ result' = "none"
    /\ UNCHANGED <<script, version, rules, cond, vec, conv, txVars, ret>>

NextTwice == Next \/ Rerun

SpecTwice == Init /\ [][NextTwice]_vars

----------------------------------------------------------------------------
(* SpecTx: removeTransaction on a block template (src/btc.ts); SpecTemplate *)
(* adds insertTransaction.  A                                               *)
(* BlockTemplateTX object is an entry of txobjs, named by its index;        *)
(* template.transactions and every TXdepends array hold such names.         *)

\* the most transactions a template holds
MaxTx == 4

\* the fees of the transactions: 0 stands for a missing fee, x.fee || 0
FeeSamples == {0, 3}

\* coinbasevalue without the fees
Subsidy == 50

RECURSIVE Ascending(_)
\* the elements of a finite set of numbers in ascending order
Ascending(S) ==
    IF S = {} THEN <<>>
    ELSE LET m == CHOOSE x \in S : \A y \in S : x <= y
         IN  <<m>> \o Ascending(S \ {m})

RECURSIVE FeeSum(_, _)
\* removed.reduce((v, x) => v + (x.fee || 0), 0)
FeeSum(os, xs) ==
    IF xs = <<>> THEN 0 ELSE os[Head(xs)].fee + FeeSum(os, Tail(xs))

\* txs.indexOf(x): 0-based, -1 when x is no element
IndexOf(txs, x) ==
    IF \E i \in 1..Len(txs) : txs[i] = x
    THEN (CHOOSE i \in 1..Len(txs) :
             txs[i] = x /\ \A j \in 1..(i - 1) : txs[j] # x) - 1
    ELSE 0 - 1

\* txs.splice(start, 1): a negative start counts from the end
Splice(txs, start) ==
    LET At(k) ==
            IF k < Len(txs)
            THEN [rest |-> SubSeq(txs, 1, k) \o SubSeq(txs, k + 2, Len(txs)),
                  taken |-> <<txs[k + 1]>>]
            ELSE [rest |-> txs, taken |-> <<>>]
    IN  At(IF start < 0
           THEN (IF Len(txs) + start < 0 THEN 0 ELSE Len(txs) + start)
           ELSE start)

\* updateTXDepends: tx.TXdepends = tx.depends.map(i => transactions[i - 1])
updateTXDepends(txs, os) ==
    [x \in 1..Len(os) |->
        IF \E i \in 1..Len(txs) : txs[i] = x
        THEN [os[x] EXCEPT
                !.TXdepends = [k \in 1..Len(os[x].depends) |->
                                  txs[os[x].depends[k]]]]
        ELSE os[x]]

\* updateNumberDepends: tx.depends = tx.TXdepends.map(indexOf(tx) + 1)
updateNumberDepends(txs, os) ==
    [x \in 1..Len(os) |->
        IF \E i \in 1..Len(txs) : txs[i] = x
        THEN [os[x] EXCEPT
                !.depends = [k \in 1..Len(os[x].TXdepends) |->
                                IndexOf(txs, os[x].TXdepends[k]) + 1]]
        ELSE os[x]]

RECURSIVE RemoveLoop(_, _, _, _)
\* while (toRemove.length) of removeTransaction
RemoveLoop(os, txs, toRemove, removed) ==
    LET Spliced(sp) ==
            RemoveLoop(os, sp.rest, Tail(toRemove) \o os[Head(toRemove)].TXdepends,
                       removed \o sp.taken)
    IN  IF toRemove = <<>> THEN [txs |-> txs, removed |-> removed]
        ELSE Spliced(Splice(txs, IndexOf(txs, Head(toRemove))))

\* removeTransaction(template, txid): the template and the objects after,
\* and the array returned
removeTransaction(t, os, txid) ==
    LET Done(r) ==
            [template |-> [transactions |-> r.txs,
                           coinbasevalue |->
                               t.coinbasevalue - FeeSum(os, r.removed)],
             txobjs |-> updateNumberDepends(r.txs, os),
             removed |-> r.removed]
        found == {i \in 1..Len(t.transactions) :
                     os[t.transactions[i]].txid = txid}
    IN  IF found = {}
        THEN [template |-> t, txobjs |-> os, removed |-> <<>>]
        ELSE Done(RemoveLoop(os, t.transactions,
                             <<t.transactions[CHOOSE i \in found :
                                                 \A j \in found : i <= j]>>,
                             <<>>))

\* the transactions 1..n of a template as the node sends them: tx k depends
\* on the transactions dep[k], by their 1-based indices
TemplateTxs(n, dep, fee) ==
    [k \in 1..n |->
        [txid |-> k, depends |-> Ascending(dep[k]), TXdepends |-> <<>>,
         fee |-> fee[k]]]

\* a template as getBlockTemplate returns it: every transaction depends on
\* transactions before it, TXdepends set by updateTXDepends
InitTx ==
    /\ CSIdle
    /\ AnalysisIdle
    /\ ConvIdle
    /\ ret = <<>>
    /\ first = NoRun
    /\ \E n \in 0..MaxTx :
          \E dep \in [1..n -> SUBSET (1..n)], fee \in [1..n -> FeeSamples] :
             /\ \A k \in 1..n : dep[k] \subseteq 1..(k - 1)
             /\ txobjs = updateTXDepends([k \in 1..n |-> k],
                                         TemplateTxs(n, dep, fee))
             /\ template = [transactions |-> [k \in 1..n |-> k],
                            coinbasevalue |->
                                Subsidy + FeeSum(TemplateTxs(n, dep, fee),
                                                 [k \in 1..n |-> k])]

\* removed = removeTransaction(template, txid)
RemoveTransaction ==
    \E txid \in 1..MaxTx :
        LET Returned(r) ==
                /\ template' = r.template
                /\ txobjs' = r.txobjs
                /\ ret' = [call |-> "removeTransaction", txid |-> txid,
                           value |-> r.removed]
        IN  /\ Returned(removeTransaction(template, txobjs, txid))
            /\ UNCHANGED <<anVars, csVars, conv, first>>

NextTx == RemoveTransaction

SpecTx == InitTx /\ [][NextTx]_vars

\* the most BlockTemplateTX objects that exist, removed ones included
MaxTxObjs == 4

\* insertTransaction(template, data) after decodeRawTransaction has answered
\* with txid and the txids vin of the inputs: the template and the objects
\* after, and the value returned
insertTransaction(t, os, txid, vin) ==
    LET tx == [txid |-> txid,
               depends |-> <<>>,
               TXdepends |-> SelectSeq(t.transactions,
                                       LAMBDA x : os[x].txid \in vin),
               fee |-> 0]
        Pushed(txs, objs1) ==
            [template |-> [t EXCEPT !.transactions = txs],
             txobjs |-> updateNumberDepends(txs, objs1),
             value |-> TRUE]
    IN  IF \E i \in 1..Len(t.transactions) : os[t.transactions[i]].txid = txid
        THEN [template |-> t, txobjs |-> os, value |-> FALSE]
        ELSE Pushed(Append(t.transactions, Len(os) + 1), Append(os, tx))

\* await insertTransaction(template, data)
InsertTransaction ==
    /\ Len(txobjs) < MaxTxObjs
    /\ \E txid \in 1..(MaxTx + 1), vin \in SUBSET (1..MaxTx) :
          LET Returned(r) ==
                  /\ template' = r.template
                  /\ txobjs' = r.txobjs
                  /\ ret' = [call |-> "insertTransaction", txid |-> txid,
                             value |-> r.value]
          IN  /\ txid \notin vin
              /\ Returned(insertTransaction(template, txobjs, txid, vin))
              /\ UNCHANGED <<anVars, csVars, conv, first>>

\* the most insertions into one template
MaxInserts == 2

\* a template of getBlockTemplate with room for at most MaxInserts objects
InitTemplate == InitTx /\ Len(txobjs) + MaxInserts >= MaxTxObjs

NextTemplate == RemoveTransaction \/ InsertTransaction

SpecTemplate == InitTemplate /\ [][NextTemplate]_vars

----------------------------------------------------------------------------
(* SpecTake: takeElements called on an analyzer with a given stack *)

MaxTakeDepth == 3
MaxVarCounter == 2
MaxTake == 4
MaxTakes == 2

StackElementSamples(vc) ==
    {Bytes(<<>>), Bytes(<<1>>)} \cup {Var(n) : n \in 0..(vc - 1)}

StackSamples(vc) ==
    UNION {[1..d -> StackElementSamples(vc)] : d \in 0..MaxTakeDepth}

InitTake ==
    /\ CSIdle
    /\ script = <<>>
    /\ version = ScriptVersion.LEGACY
    /\ rules = ScriptRules.ALL
    /\ heap = <<>>
    /\ branches = <<1>>
    /\ callStack = <<>>
    /\ pc = "take"
    /\ log = <<>>
    /\ printed = <<>>
    /\ shown = <<>>
    /\ result = "none"
    /\ ConvIdle
    /\ TxIdle
    /\ RetIdle
    /\ \E vc \in 0..MaxVarCounter : \E st \in StackSamples(vc) :
          /\ objs = <<[NewAnalyzer EXCEPT !.stack = st, !.varCounter = vc]>>
          /\ status = <<"running">>
          /\ out = <<undefined>>
          /\ calls = <<0>>
          /\ parent = <<0>>

TakeElementsCall ==
    /\ pc = "take"
    /\ Len(objs) = 1
    /\ (IF ret = <<>> THEN 0 ELSE ret.n) < MaxTakes
    /\ \E amount \in 0..MaxTake :
          LET Called(r) ==
                /\ objs' = [objs EXCEPT ![1] = r.a]
                /\ ret' = [call |-> "takeElements",
                           n |-> IF ret = <<>> THEN 1 ELSE ret.n + 1,
                           amount |-> amount,
                           this |-> objs[1],
                           value |-> r.res]
          IN  Called(takeElements(objs[1], amount))
    /\ UNCHANGED <<script, version, rules, heap, branches, callStack, pc,
                   status, out, calls, parent, log, printed, shown, result,
                   csVars, conv, txVars, first>>

NextTake == TakeElementsCall

SpecTake == InitTake /\ [][NextTake]_vars

----------------------------------------------------------------------------
(* SpecUtil: Util.exprCompareFn and Util.normalizeExprs on given expressions *)

\* the longest array handed to normalizeExprs
MaxExprs == 2

\* expression objects as analyze() builds them: arguments out of order under
\* opcodes whose order is kept and under others, nested both ways, and two
\* nodes of one opcode that differ in arity
UtilHeap ==
    <<Node(OP_SUB, <<Bytes(<<1>>), Var(0)>>, undefined),
      Node(OP_ADD, <<Bytes(<<1>>), Var(0)>>, undefined),
      Node(OP_ADD, <<Ref(1), Var(1)>>, undefined),
      Node(OP_CHECKSIG, <<Var(1), Var(0)>>, undefined),
      Node(OP_NOT, <<Ref(4)>>, undefined),
      Node(OP_EQUAL, <<Ref(1), Ref(2)>>, undefined),
      Node(OP_CHECKMULTISIG, <<Bytes(<<2>>), Bytes(<<1>>)>>, undefined),
      Node(OP_CHECKMULTISIG, <<Bytes(<<1>>), Bytes(<<1>>), Bytes(<<>>)>>,
           undefined),
      Node(INTERNAL_NOT, <<Var(0)>>, undefined),
      Node(OP_SUB, <<Ref(2), Var(0)>>, undefined)>>

\* what the arrays hold
UtilExprs ==
    {Var(0), Var(1), Bytes(<<>>), Bytes(<<1>>), Bytes(<<1, 0>>), Bytes(<<2>>)}
    \cup {Ref(i) : i \in 1..Len(UtilHeap)}

InitUtil ==
    /\ CSIdle
    /\ ConvIdle
    /\ TxIdle
    /\ RetIdle
    /\ script = <<>>
    /\ version = ScriptVersion.LEGACY
    /\ rules = ScriptRules.ALL
    /\ heap = UtilHeap
    /\ \E exprs \in UNION {[1..k -> UtilExprs] : k \in 0..MaxExprs} :
          objs = <<WithConditions(exprs)>>
    /\ branches = <<1>>
    /\ callStack = <<>>
    /\ pc = "util"
    /\ status = <<"returned">>
    /\ out = <<undefined>>
    /\ calls = <<1>>
    /\ parent = <<0>>
    /\ log = <<>>
    /\ printed = <<>>
    /\ shown = <<>>
    /\ result = "none"

\* Util.exprCompareFn(a, b) on the first two elements of the array
ExprCompareCall ==
    /\ pc = "util"
    /\ Len(objs[1].spendingConditions) >= 2
    /\ ret' = [call |-> "exprCompareFn",
               a |-> objs[1].spendingConditions[1],
               b |-> objs[1].spendingConditions[2],
               value |-> exprCompareFn(heap, objs[1].spendingConditions[1],
                                       objs[1].spendingConditions[2])]
    /\ pc' = "called"
    /\ UNCHANGED <<script, version, rules, objs, heap, branches, callStack,
                   status, out, calls, parent, log, printed, shown, result,
                   csVars, conv, txVars, first>>

\* Util.normalizeExprs(exprs) on the array, which it sorts in place
NormalizeCall ==
    /\ pc = "util"
    /\ LET Called(r) ==
              /\ objs' = [objs EXCEPT ![1].spendingConditions = r.exprs]
              /\ heap' = r.h
       IN  Called(normalizeExprs(heap, objs[1].spendingConditions))
    /\ ret' = [call |-> "normalizeExprs",
               exprs |-> objs[1].spendingConditions,
               heap |-> heap]
    /\ pc' = "called"
    /\ UNCHANGED <<script, version, rules, branches, callStack,
                   status, out, calls, parent, log, printed, shown, result,
                   csVars, conv, txVars, first>>

NextUtil == ExprCompareCall \/ NormalizeCall

SpecUtil == InitUtil /\ [][NextUtil]_vars

----------------------------------------------------------------------------
(* Properties                                                               *)

\* the analyzers constructed so far
Analyzers == 1..Len(objs)

\* the active analyzer is about to execute an OP_IF or OP_NOTIF with fExec
AtExecutedIf ==
    /\ InLoop
    /\ ~CurItem.push
    /\ CurItem.op \in {OP_IF, OP_NOTIF}
    /\ fExec

\* the element the next takeElements(1) or readElements(1) of a yields
TopOrVar(a) == IF Len(a.stack) > 0 THEN Last(a.stack) ELSE Var(a.varCounter)

\* the active analyzer is about to leave its loop
AtEndOfScript ==
    /\ pc = "run"
    /\ callStack # <<>>
    /\ status[Active] = "running"
    /\ objs[Active].scriptOffset >= Len(script)

\* a Uint8Array that script execution reads as false: zeros, the last byte
\* possibly the sign bit alone
IsFalseValue(b) == \A i \in 1..Len(b) : b[i] = 0 \/ (i = Len(b) /\ b[i] = 128)

\* C1 (SpecCS): after any sequence of push_back, pop_back and toggle_top,
\* all_true() is the conjunction of the vector of booleans the same calls
\* build, and empty() is the emptiness of that vector.
C1_Refinement ==
    /\ cs_all_true(cond) = (\A i \in 1..Len(vec) : vec[i])
    /\ cs_empty(cond) = (vec = <<>>)

\* a false was pushed, a true pushed over it, and a false toggled to true below
C1_Witness ==
    /\ vec = <<TRUE, FALSE, TRUE>>
    /\ cond.m_first_false_pos = 1

\* every analyzer constructed is in the registry once, and its analyze() was
\* entered once
C2_RegistryInv ==
    /\ \A i \in 1..Len(branches) : branches[i] \in Analyzers
    /\ \A id \in Analyzers :
          /\ Cardinality({i \in 1..Len(branches) : branches[i] = id}) = 1
          /\ calls[id] = 1

\* the registry gets the root when analyzeScript constructs it, one new entry
\* at an executed OP_IF, OP_NOTIF or OP_IFDUP, and nothing in any other step
C2_RegistryStep ==
    IF pc = "init"
    THEN branches' = <<>> \/ (branches' = <<1>> /\ Len(objs') = 1)
    ELSE IF InLoop /\ IsForkItem(CurItem)
    THEN /\ Len(objs') = Len(objs) + 1
         /\ branches' = Append(branches, Len(objs'))
         /\ calls' = Append(calls, 1)
    ELSE branches' = branches /\ Len(objs') = Len(objs) /\ calls' = calls

\* C2: the registry holds exactly one entry for the root and one per fork
\* spawned at an executed OP_IF, OP_NOTIF or OP_IFDUP; no analyzer is
\* registered twice and analyze() runs exactly once for each entry.
C2_OneEntryPerPath == []C2_RegistryInv /\ [][C2_RegistryStep]_vars

\* a finished analysis with a root and two forks
C2_Witness ==
    /\ pc = "done"
    /\ Len(branches) = 3
    /\ \A id \in Analyzers : status[id] = "returned"

\* C3, as the specification states it: every path that ended with an error
\* code has a diagnostic with the error and its stack, and is no disjunct of
\* the printed result.
C3_ErroredPathsAbandoned ==
    pc = "done" =>
        \A id \in Analyzers :
            out[id] # undefined =>
                /\ \E l \in 1..Len(log) :
                      log[l] = [error |-> out[id], stack |-> objs[id].stack]
                /\ \A p \in 1..Len(shown) :
                      \A k \in 1..Len(shown[p]) : shown[p][k] # id

\* C4, as the specification states it: when the analysis is over, at most
\* the path that failed is left unfinished, and every path that ended without
\* an error was handed to the simplifier and the result printed.
C4_OtherPathsReported ==
    pc \in {"done", "threw"} =>
        /\ Cardinality({id \in Analyzers : status[id] = "running"}) <= 1
        /\ \A id \in Analyzers :
              (status[id] = "returned" /\ out[id] = undefined) =>
                  Len(printed) = 1

\* the fields of an analyzer that a skipped item must leave alone
Untouched(id) ==
    /\ objs'[id] = [objs[id] EXCEPT !.scriptOffset = @ + 1]
    /\ UNCHANGED <<branches, heap, status, out, callStack, pc, result>>

\* C5, amended: while fExec is false every data push and every opcode outside
\* the range OP_IF..OP_ENDIF is skipped: it changes neither stack, altstack,
\* spendingConditions, varCounter, condition stack nor registry, and does not
\* end the path.
C5_SkippedOutsideRange ==
    [][(/\ InLoop
        /\ ~fExec
        /\ (CurItem.push \/ CurItem.op < OP_IF \/ CurItem.op > OP_ENDIF))
       => Untouched(Active)]_vars

\* C5, as the specification states it: while fExec is false every item other
\* than OP_IF, OP_NOTIF, OP_ELSE and OP_ENDIF is skipped.
C5_SkippedUnlessFlowControl ==
    [][(/\ InLoop
        /\ ~fExec
        /\ (CurItem.push \/ CurItem.op \notin {OP_IF, OP_NOTIF, OP_ELSE, OP_ENDIF}))
       => Untouched(Active)]_vars

\* a data push was passed over in a region that is not executed
C5_Witness ==
    /\ pc = "run"
    /\ callStack # <<>>
    /\ status[Active] = "running"
    /\ ~fExec
    /\ objs[Active].scriptOffset >= 2
    /\ script[objs[Active].scriptOffset].push
    /\ objs[Active].stack = <<>>

\* what C6 says of a step from an executed OP_IF or OP_NOTIF without the
\* minimal-if rule
C6_ForkStep ==
    LET e    == TopOrVar(objs[Active])
        this == objs'[Active]
        fork == objs'[Len(objs')]
    IN  /\ Len(objs') = Len(objs) + 1
        /\ branches' = Append(branches, Len(objs'))
        /\ this.cs = cs_push_back(objs[Active].cs, CurItem.op = OP_IF)
        /\ fork.cs = cs_push_back(objs[Active].cs, CurItem.op # OP_IF)
        /\ this.spendingConditions = Append(objs[Active].spendingConditions, e)
        /\ Len(fork.spendingConditions) = Len(objs[Active].spendingConditions) + 1
        /\ SubSeq(fork.spendingConditions, 1, Len(objs[Active].spendingConditions))
             = objs[Active].spendingConditions
        /\ IsApp(Last(fork.spendingConditions))
        /\ heap'[Last(fork.spendingConditions).ref]
             = Node(INTERNAL_NOT, <<e>>, undefined)
        /\ cs_all_true(this.cs) = (CurItem.op = OP_IF)
        /\ cs_all_true(fork.cs) = (CurItem.op = OP_NOTIF)

\* C6: an executed OP_IF or OP_NOTIF that consumes e without the minimal-if
\* rule leaves two branches: this pushes (op = OP_IF) and appends e, the fork
\* pushes the opposite flag and appends INTERNAL_NOT(e); the body is executed
\* under e exactly for OP_IF and under not-e exactly for OP_NOTIF.
C6_IfForksOnElement ==
    [][(/\ AtExecutedIf
        /\ \/ version = ScriptVersion.LEGACY
           \/ (version = ScriptVersion.SEGWITV0
               /\ rules = ScriptRules.CONSENSUS_ONLY))
       => C6_ForkStep]_vars

\* a legacy OP_NOTIF was executed: its fork runs the body under not-e
C6_Witness ==
    /\ version = ScriptVersion.LEGACY
    /\ pc = "run"
    /\ Len(objs) = 2
    /\ script[1] = Op(OP_NOTIF)
    /\ callStack = <<1, 2>>
    /\ objs[2].scriptOffset = 1
    /\ cs_all_true(objs[2].cs)
    /\ ~cs_all_true(objs[1].cs)
    /\ objs[1].spendingConditions = <<Var(0)>>

\* the error the minimal-if predicates carry
C7_Tag ==
    IF version = ScriptVersion.SEGWITV1
    THEN SCRIPT_ERR_TAPSCRIPT_MINIMALIF
    ELSE SCRIPT_ERR_MINIMALIF

\* what C7 says of a step from an executed OP_IF or OP_NOTIF
C7_ForkStep ==
    LET e  == TopOrVar(objs[Active])
        tc == Last(objs'[Active].spendingConditions)
        fc == Last(objs'[Len(objs')].spendingConditions)
    IN  /\ Len(objs') = Len(objs) + 1
        /\ IsApp(fc)
        /\ IF \/ version = ScriptVersion.SEGWITV1
              \/ (version = ScriptVersion.SEGWITV0 /\ rules = ScriptRules.ALL)
           THEN /\ IsApp(tc)
                /\ heap'[tc.ref] = Node(OP_EQUAL, <<e, Bytes(<<1>>)>>, C7_Tag)
                /\ heap'[fc.ref] = Node(OP_EQUAL, <<e, Bytes(<<>>)>>, C7_Tag)
           ELSE /\ tc = e
                /\ heap'[fc.ref] = Node(INTERNAL_NOT, <<e>>, undefined)

\* C7: the minimal-if rule is applied to an executed OP_IF/OP_NOTIF exactly
\* when version is SegwitV1, or version is SegwitV0 and rules is All: then
\* this gets OP_EQUAL(e, TRUE) and the fork OP_EQUAL(e, FALSE), both tagged
\* TAPSCRIPT_MINIMALIF under SegwitV1 and MINIMALIF otherwise; in every other
\* combination the untagged pair e / INTERNAL_NOT(e) is emitted.
C7_MinimalIfRule == [][AtExecutedIf => C7_ForkStep]_vars

\* a SegwitV0 script under the rules All has forked on a tagged predicate
C7_Witness ==
    /\ version = ScriptVersion.SEGWITV0
    /\ rules = ScriptRules.ALL
    /\ Len(objs) >= 2
    /\ Len(heap) >= 2
    /\ heap[1] = Node(OP_EQUAL, <<Var(0), Bytes(<<1>>)>>, SCRIPT_ERR_MINIMALIF)
    /\ heap[2] = Node(OP_EQUAL, <<Var(0), Bytes(<<>>)>>, SCRIPT_ERR_MINIMALIF)

\* the place of analyzer id in the registry
Pos(id) == CHOOSE i \in 1..Len(branches) : branches[i] = id

RECURSIVE IsAncestor(_, _)
\* a is the analyzer d was cloned from, or an ancestor of it
IsAncestor(a, d) ==
    parent[d] # 0 /\ (parent[d] = a \/ IsAncestor(a, parent[d]))

\* C8: the registry order is the depth-first pre-order of the fork tree:
\* every analyzer precedes the forks it spawns, and if an analyzer spawns
\* F1 before F2 then F1 and all of F1's descendants precede F2.
C8_PreOrder ==
    /\ \A f \in Analyzers : parent[f] # 0 => Pos(parent[f]) < Pos(f)
    /\ \A f1, f2 \in Analyzers :
          (parent[f1] # 0 /\ parent[f1] = parent[f2] /\ f1 < f2) =>
              /\ Pos(f1) < Pos(f2)
              /\ \A d \in Analyzers : IsAncestor(f1, d) => Pos(d) < Pos(f2)

\* the root has spawned two forks, and the first of them one of its own
C8_Witness ==
    /\ parent = <<0, 1, 2, 1>>
    /\ Len(branches) = 4

\* C9, as the specification states it: no analyzer is at the top of its loop
\* with more than 1000 elements on stack and altstack together.
C9_StackBound ==
    (pc = "run" /\ callStack # <<>> /\ status[Active] = "running") =>
        Len(objs[Active].stack) + Len(objs[Active].altstack) <= 1000

\* what C10 says of the step that takes an analyzer out of its loop
C10_EndStep ==
    LET a == objs[Active]
        e == TopOrVar(objs[Active])
    IN  /\ status'[Active] = "returned"
        /\ IF ~cs_empty(a.cs)
           THEN /\ out'[Active] = SCRIPT_ERR_UNBALANCED_CONDITIONAL
                /\ objs'[Active] = a
           ELSE IF Len(a.stack) > 1
           THEN /\ out'[Active] = SCRIPT_ERR_CLEANSTACK
                /\ objs'[Active] = a
           ELSE /\ objs'[Active].stack = <<>>
                /\ IF IsBytes(e)
                   THEN /\ objs'[Active].spendingConditions = a.spendingConditions
                        /\ out'[Active] = IF IsFalseValue(e.bytes)
                                          THEN SCRIPT_ERR_EVAL_FALSE
                                          ELSE undefined
                   ELSE /\ objs'[Active].spendingConditions
                             = Append(a.spendingConditions, e)
                        /\ out'[Active] = undefined

\* C10: at the end of the script a non-empty condition stack ends the path
\* with UNBALANCED_CONDITIONAL; otherwise more than one stack element ends it
\* with CLEANSTACK; otherwise the single element (a fresh variable if the
\* stack is empty) is verified: a concrete false ends the path with
\* EVAL_FALSE, a symbolic value is appended to spendingConditions, a concrete
\* true adds nothing.
C10_EndOfScriptOrder == [][AtEndOfScript => C10_EndStep]_vars

\* one path ended with EVAL_FALSE on a concrete false, another was verified
\* on a fresh variable
C10_Witness ==
    /\ pc = "done"
    /\ \E id \in Analyzers :
          /\ out[id] = SCRIPT_ERR_EVAL_FALSE
          /\ objs[id].scriptOffset = Len(script)
    /\ \E id \in Analyzers :
          /\ out[id] = undefined
          /\ objs[id].stack = <<>>
          /\ Len(objs[id].spendingConditions) = 2

\* the active analyzer is about to execute the opcode op
AtExecuted(op) ==
    /\ InLoop
    /\ ~CurItem.push
    /\ CurItem.op = op
    /\ fExec

\* what C11 says of a step from an executed OP_NUMEQUALVERIFY: the node is
\* symbolic, so verifying it appends it to spendingConditions
C11_VerifyStep ==
    LET t == takeElements(objs[Active], 2)
        c == Last(objs'[Active].spendingConditions)
    IN  /\ objs'[Active].stack = t.a.stack
        /\ objs'[Active].spendingConditions
              = Append(objs[Active].spendingConditions, c)
        /\ IsApp(c)
        /\ heap'[c.ref] = Node(OP_NUMEQUAL, t.res, undefined)
        /\ status'[Active] = "running"

\* C11: an executed OP_NUMEQUALVERIFY pops a and b, forms OP_NUMEQUAL(a, b)
\* and verifies it: the predicate is appended to spendingConditions (or the
\* path fails with NUMEQUALVERIFY) and no result is left on the stack.
C11_NumEqualVerify == [][AtExecuted(OP_NUMEQUALVERIFY) => C11_VerifyStep]_vars

\* the active analyzer is about to execute OP_PICK or OP_ROLL
AtPickRoll == AtExecuted(OP_PICK) \/ AtExecuted(OP_ROLL)

\* what C12 says of a step from an executed OP_PICK or OP_ROLL whose index
\* element is e
C12_IndexStep ==
    LET e == TopOrVar(objs[Active])
    IN  IF ~IsBytes(e) \/ Len(e.bytes) > 4
        THEN /\ status'[Active] = "returned"
             /\ out'[Active] = SCRIPT_ERR_NUM_OVERFLOW
        ELSE IntDecode(e.bytes) < 0 =>
                /\ status'[Active] = "returned"
                /\ out'[Active] = SCRIPT_ERR_INVALID_STACK_OPERATION

\* C12: OP_PICK and OP_ROLL with an index that is not a concrete integer of
\* at most 4 bytes (a symbolic expression, a witness variable, or more than
\* 4 bytes) end the path with NUM_OVERFLOW; a negative concrete index ends it
\* with INVALID_STACK_OPERATION.
C12_PickRollIndex == [][AtPickRoll => C12_IndexStep]_vars

\* analyze() of the root has returned without an error: analyzeScript is
\* about to call cleanupConditions
AtCleanup ==
    /\ pc = "run"
    /\ Len(callStack) = 1
    /\ status[Active] = "returned"
    /\ out[Active] = undefined

\* partial evaluation rewrites the predicate e to the concrete value v
RewritesTo(h, e, v) ==
    /\ evalExpr(h, e).defined
    /\ IsBytes(evalExpr(h, e).e)
    /\ BoolDecode(evalExpr(h, e).e.bytes) = v

\* the branches the last cleanupConditions printed
LastShown == {Last(shown)[k] : k \in 1..Len(Last(shown))}

\* what C13 says of the step that runs cleanupConditions
C13_CleanupStep ==
    \A p \in 1..Len(branches) :
        LET id     == branches[p]
            before == objs[id].spendingConditions
            after  == objs'[id].spendingConditions
        IN  /\ (\E j \in 1..Len(before) : RewritesTo(heap, before[j], FALSE))
                  => id \notin LastShown'
            /\ id \in LastShown' =>
                  \A j \in 1..Len(after) :
                      IsBytes(after[j]) =>
                          \E i \in 1..Len(before) : before[i] = after[j]

\* C13: when the simplifier rewrites a predicate to a concrete true, the
\* predicate is removed from the list of conjuncts (no constant takes its
\* place); when it rewrites one to a concrete false, the whole branch is
\* removed from the printed disjunction.
C13_ConstantsFolded == [][AtCleanup => C13_CleanupStep]_vars

\* the script holds, as an opcode, one of the opcodes Bitcoin disabled
HasDisabledOpcode ==
    \E i \in 1..Len(script) :
        /\ ~script[i].push
        /\ script[i].op \in {OP_CAT, OP_SUBSTR, OP_LEFT, OP_RIGHT, OP_INVERT,
                             OP_AND, OP_OR, OP_XOR, OP_2MUL, OP_2DIV, OP_MUL,
                             OP_DIV, OP_MOD, OP_LSHIFT, OP_RSHIFT}

\* C14: a disabled opcode anywhere in the script, also in a region that would
\* never be executed, makes analyzeScript return DISABLED_OPCODE and stop: no
\* analyzer is constructed, no item is executed and nothing is printed.  A
\* data push whose bytes equal the value of a disabled opcode does not
\* trigger the check.
C14_DisabledOpcodeStops ==
    pc # "init" =>
        IF HasDisabledOpcode
        THEN /\ pc = "done"
             /\ result = "SCRIPT_ERR_DISABLED_OPCODE"
             /\ objs = <<>>
             /\ branches = <<>>
             /\ heap = <<>>
             /\ printed = <<>>
             /\ log = <<>>
        ELSE /\ result # "SCRIPT_ERR_DISABLED_OPCODE"
             /\ Len(objs) >= 1

\* the pre-scan has stopped on an OP_CAT that OP_0 OP_IF would have skipped
C14_Witness ==
    /\ script = <<Op(OP_0), Op(OP_IF), Op(OP_CAT), Op(OP_ENDIF)>>
    /\ pc = "done"
    /\ result = "SCRIPT_ERR_DISABLED_OPCODE"

\* C15 (SpecClean): running cleanupConditions a second time on the conjunct
\* lists a first run left prints the same disjunction as the first run, for
\* every input set of conjunct lists.
C15_CleanupIdempotent == pc = "clean2" => printed[2] = printed[1]

\* the tree Util.exprToString walks for an { opcode, args } expression
Tree(opcode, args) == [type |-> "opcode", opcode |-> opcode, args |-> args]

\* analyzeScript has returned from the script s under Legacy
DoneLegacy(s) ==
    /\ script = s
    /\ version = ScriptVersion.LEGACY
    /\ pc = "done"

\* C16, as the specification states it: the hash is taken of <input1> and the
\* signature is <input0>.
C16_AsStated ==
    \A h \in HashSamples :
        DoneLegacy(PayToPubkeyHash(h)) =>
            /\ objs[1].varCounter = 2
            /\ Len(branches) = 1
            /\ printed
                 = << << << Tree(OP_EQUAL,
                                 <<Tree(OP_HASH160, <<Var(1)>>), Bytes(h)>>),
                            Tree(OP_CHECKSIG, <<Var(0), Var(1)>>) >> >> >>

\* C16: for OP_DUP OP_HASH160 <h> OP_EQUALVERIFY OP_CHECKSIG analysed under
\* Legacy on an empty stack exactly two witness variables are introduced,
\* there is one branch, and its printed condition is
\* (HASH160(<input0>) == <h>) && CHECKSIG(<input1>,<input0>): OP_DUP draws
\* <input0>, the public key, and OP_CHECKSIG draws <input1>, the signature,
\* below it.
C16_PayToPubkeyHash ==
    \A h \in HashSamples :
        DoneLegacy(PayToPubkeyHash(h)) =>
            /\ objs[1].varCounter = 2
            /\ Len(branches) = 1
            /\ printed
                 = << << << Tree(OP_EQUAL,
                                 <<Tree(OP_HASH160, <<Var(0)>>), Bytes(h)>>),
                            Tree(OP_CHECKSIG, <<Var(1), Var(0)>>) >> >> >>

\* the pay-to-pubkey-hash script has been analysed and its branch printed
C16_Witness ==
    /\ DoneLegacy(PayToPubkeyHash(<<170, 187>>))
    /\ Len(printed) = 1
    /\ Len(printed[1]) = 1

\* C17: for <01> OP_NOT OP_IF <sig> <pk> OP_CHECKSIG OP_ELSE OP_RETURN
\* OP_ENDIF analysed under Legacy, the branch that takes the OP_ELSE side
\* ends with OP_RETURN and contributes nothing, and the printed disjunction
\* is the single surviving branch CHECKSIG(<sig>, <pk>).
C17_ReturnBranchDropped ==
    \A sig \in SigSamples, pk \in PubkeySamples :
        DoneLegacy(NotIfCheckSig(sig, pk)) =>
            /\ Len(objs) = 2
            /\ out[2] = SCRIPT_ERR_OP_RETURN
            /\ printed
                 = << << << Tree(OP_CHECKSIG, <<Bytes(sig), Bytes(pk)>>) >> >> >>

\* C18: for OP_0 <sig1> <sig2> <2> <pk1> <pk2> <pk3> <3> OP_CHECKMULTISIG
\* analysed under Legacy there is one branch; the dummy-is-zero predicate
\* tagged SIG_NULLDUMMY evaluates to true and is dropped, and the only printed
\* condition is CHECKMULTISIG(<sig1>, <sig2>, 2, <pk1>, <pk2>, <pk3>, 3).
C18_NullDummyDropped ==
    \A sig2 \in SigSamples, pk3 \in PubkeySamples :
        DoneLegacy(TwoOfThree(<<48>>, sig2, <<2>>, <<3, 7>>, pk3)) =>
            /\ Len(branches) = 1
            /\ printed
                 = << << << Tree(OP_CHECKMULTISIG,
                                 <<Bytes(<<48>>), Bytes(sig2), Bytes(<<2>>),
                                   Bytes(<<2>>), Bytes(<<3, 7>>), Bytes(pk3),
                                   Bytes(<<3>>)>>) >> >> >>

\* C19 (SpecConv): for every integer n with |n| <= 0x7fffffff,
\* Int.decode(Int.encode(n)) is n; the encoding of 0 is empty and every
\* encoding in this range has at most 4 bytes.
C19_IntRoundTrip ==
    conv.kind = "int" =>
        /\ conv.stage \in {"encoded", "decoded"} =>
              /\ Len(conv.enc) <= 4
              /\ conv.n = 0 => conv.enc = <<>>
        /\ conv.stage = "decoded" => conv.num = conv.n

\* -128 went through <80 80> and came back
C19_Witness ==
    /\ conv.kind = "int"
    /\ conv.stage = "decoded"
    /\ conv.n = 0 - 128
    /\ conv.enc = <<128, 128>>

\* C20 (SpecConv): Bool.decode(Bool.encode(v)) is v for every boolean v;
\* Bool.decode(Bool.not(Bool.not(b))) is Bool.decode(b) for every byte string
\* b; and Bool.decode(b) is false exactly when b is empty or holds only 0x00
\* bytes except possibly a final 0x80.
C20_BoolRoundTrip ==
    conv.stage = "decoded" =>
        /\ conv.kind = "bool" => conv.dec = conv.v
        /\ conv.kind = "bytes" =>
              /\ conv.dec = conv.decb
              /\ conv.decb = ~IsFalseValue(conv.b)

\* <00 80>, a negative zero, was negated twice and decoded as false
C20_Witness ==
    /\ conv.kind = "bytes"
    /\ conv.stage = "decoded"
    /\ conv.b = <<0, 128>>
    /\ conv.enc = <<>>
    /\ ~conv.decb

C23_ConditionStackInv ==
    /\ cond.m_stack_size >= 0
    /\ \/ cond.m_first_false_pos = 0 - 1
       \/ /\ 0 <= cond.m_first_false_pos
          /\ cond.m_first_false_pos < cond.m_stack_size

\* a stack of three whose first false is the middle entry
C23_Witness ==
    /\ cond.m_stack_size = 3
    /\ cond.m_first_false_pos = 1
    /\ vec = <<TRUE, FALSE, TRUE>>

\* the names held by a sequence
Range(s) == {s[i] : i \in 1..Len(s)}

RECURSIVE ReachFrom(_, _, _)
\* the objects reachable through TXdepends from those in todo, seen included
ReachFrom(os, todo, seen) ==
    IF todo = {} THEN seen
    ELSE LET x == CHOOSE y \in todo : TRUE
         IN  ReachFrom(os, (todo \cup Range(os[x].TXdepends)) \ (seen \cup {x}),
                       seen \cup {x})

\* the transaction of the template with the txid handed to the call that
\* returns in this step
C22_Target ==
    CHOOSE x \in Range(template.transactions) : txobjs[x].txid = ret'.txid

\* what C22 says of a call of removeTransaction with a txid of the template
C22_RemoveStep ==
    LET R == ReachFrom(txobjs, {C22_Target}, {})
    IN  /\ template'.transactions
              = SelectSeq(template.transactions, LAMBDA x : x \notin R)
        /\ Range(ret'.value) = R \cap Range(template.transactions)
        /\ Len(ret'.value) = Cardinality(R \cap Range(template.transactions))

\* C22 (SpecTx): removeTransaction(template, txid), for a txid present in the
\* template, removes from template.transactions exactly the transaction with
\* that txid and every transaction reachable from it through TXdepends,
\* returns exactly those transactions (each once), and leaves every other
\* transaction in the template, also when two removed transactions share a
\* dependency.
C22_RemoveExactlyReachable ==
    [][(\E x \in Range(template.transactions) : txobjs[x].txid = ret'.txid)
          => C22_RemoveStep]_vars

\* s is t or t with elements appended
IsPrefix(s, t) == Len(s) <= Len(t) /\ SubSeq(t, 1, Len(s)) = s

\* an analyze() is on the call stack and has not handed over to
\* cleanupConditions
Analysing == pc = "run" /\ callStack # <<>> /\ ~AtCleanup

\* what C24 says of a step of the analyzer whose analyze() is running
C24_FrameStep ==
    /\ \A id \in Analyzers : id # Active => objs'[id] = objs[id]
    /\ IsPrefix(branches, branches')
    /\ IsPrefix(heap, heap')

\* C24: after a fork is created, no step executed by the fork changes the
\* parent's stack, altstack, spendingConditions, varCounter, scriptOffset or
\* condition stack, and no step executed by the parent changes the fork's;
\* the branch registry is the only state shared between analyzers and it only
\* ever grows by appends (the expression objects they share are not modified
\* either).
C24_ForksIndependent == [][Analysing => C24_FrameStep]_vars

\* parent and fork have both run to the end of the script and left different
\* conjunct lists and variable counters
C24_Witness ==
    /\ pc = "done"
    /\ Len(objs) = 2
    /\ objs[1].scriptOffset = Len(script)
    /\ objs[2].scriptOffset = Len(script)
    /\ objs[1].varCounter # objs[2].varCounter
    /\ objs[1].spendingConditions # objs[2].spendingConditions

\* C25: at the moment the root's analyze() returns, every analyzer in the
\* registry has finished its own analyze(): it reached the end of the script
\* or returned an error; no fork is still pending or partially executed.
C25_AllFinishedAtReturn ==
    (Len(status) >= 1 /\ status[1] = "returned") =>
        \A i \in 1..Len(branches) :
            /\ status[branches[i]] = "returned"
            /\ calls[branches[i]] = 1
            /\ \/ out[branches[i]] # undefined
               \/ objs[branches[i]].scriptOffset = Len(script)

\* the root's analyze() has just returned, after two forks of which one ended
\* with an error
C25_Witness ==
    /\ pc = "run"
    /\ callStack = <<1>>
    /\ status[1] = "returned"
    /\ Len(branches) = 3
    /\ \E id \in Analyzers : id # 1 /\ out[id] # undefined
    /\ \E id \in Analyzers : id # 1 /\ out[id] = undefined

\* the active analyzer is about to dispatch an OP_IF or OP_NOTIF while fExec
\* is false
AtSkippedIf ==
    /\ InLoop
    /\ ~CurItem.push
    /\ CurItem.op \in {OP_IF, OP_NOTIF}
    /\ ~fExec

\* what C26 says of that step
C26_PushFalseStep ==
    LET a == objs[Active]
    IN  /\ objs'[Active]
              = [a EXCEPT !.scriptOffset = @ + 1,
                          !.cs = [m_stack_size |-> a.cs.m_stack_size + 1,
                                  m_first_false_pos |-> a.cs.m_first_false_pos]]
        /\ Len(objs') = Len(objs)
        /\ UNCHANGED <<branches, heap, status, out, callStack, pc>>

\* C26: an OP_IF or OP_NOTIF met while fExec is false pushes false on the
\* condition stack and does nothing else: no element is taken from the stack,
\* no witness variable is drawn, no fork is created and spendingConditions is
\* unchanged.
C26_SkippedIfPushesFalse == [][AtSkippedIf => C26_PushFalseStep]_vars

\* a fork stands two deep in conditionals it does not execute, with an
\* element on its stack that the inner OP_IF left alone
C26_Witness ==
    /\ pc = "run"
    /\ callStack # <<>>
    /\ objs[Active].cs.m_stack_size = 2
    /\ objs[Active].cs.m_first_false_pos = 0
    /\ objs[Active].scriptOffset >= 2
    /\ ~script[objs[Active].scriptOffset].push
    /\ script[objs[Active].scriptOffset].op \in {OP_IF, OP_NOTIF}
    /\ objs[Active].stack # <<>>

\* the active analyzer is about to dispatch an OP_ELSE or OP_ENDIF; the gate
\* at the head of the loop lets both through on a path that is not executing
AtElseOrEndif ==
    /\ InLoop
    /\ ~CurItem.push
    /\ CurItem.op \in {OP_ELSE, OP_ENDIF}

\* the condition stack after toggle_top, written out for a non-empty stack
Toggled(c) ==
    [m_stack_size |-> c.m_stack_size,
     m_first_false_pos |->
        IF c.m_first_false_pos = NO_FALSE THEN c.m_stack_size - 1
        ELSE IF c.m_first_false_pos = c.m_stack_size - 1 THEN NO_FALSE
        ELSE c.m_first_false_pos]

\* the condition stack after pop_back, written out for a non-empty stack
Popped(c) ==
    [m_stack_size |-> c.m_stack_size - 1,
     m_first_false_pos |->
        IF c.m_first_false_pos = c.m_stack_size - 1 THEN NO_FALSE
        ELSE c.m_first_false_pos]

C27_ElseEndifStep ==
    LET a == objs[Active]
    IN  IF a.cs.m_stack_size = 0
        THEN /\ status'[Active] = "returned"
             /\ out'[Active] = SCRIPT_ERR_UNBALANCED_CONDITIONAL
             /\ objs'[Active] = [a EXCEPT !.scriptOffset = @ + 1]
        ELSE /\ a.cs.m_stack_size > 0
             /\ objs'[Active]
                   = [a EXCEPT !.scriptOffset = @ + 1,
                               !.cs = IF CurItem.op = OP_ELSE
                                      THEN Toggled(@) ELSE Popped(@)]
             /\ objs'[Active].cs.m_first_false_pos
                   \in {NO_FALSE} \cup 0..(objs'[Active].cs.m_stack_size - 1)
             /\ UNCHANGED <<status, out>>

\* C27: the executor never calls pop_back or toggle_top on an empty condition
\* stack: an OP_ELSE or OP_ENDIF met with an empty condition stack ends the
\* path with UNBALANCED_CONDITIONAL, otherwise OP_ELSE applies toggle_top and
\* OP_ENDIF applies pop_back, whether or not the path is currently executing.
C27_ElseEndifGuarded == [][AtElseOrEndif => C27_ElseEndifStep]_vars

\* a path that toggled or popped a conditional it was not executing, and later
\* met an OP_ELSE or OP_ENDIF with nothing left on its condition stack
C27_Witness ==
    \E id \in 1..Len(objs) :
        /\ status[id] = "returned"
        /\ out[id] = SCRIPT_ERR_UNBALANCED_CONDITIONAL
        /\ objs[id].scriptOffset >= 1
        /\ ~script[objs[id].scriptOffset].push
        /\ script[objs[id].scriptOffset].op \in {OP_ELSE, OP_ENDIF}
        /\ objs[id].cs.m_stack_size = 0
        /\ \E j \in 1..(objs[id].scriptOffset - 1) :
              /\ ~script[j].push
              /\ script[j].op \in {OP_ELSE, OP_ENDIF}

\* the smaller of two numbers
Min(a, b) == IF a < b THEN a ELSE b

\* C28: takeElements(k) on a stack of depth d removes min(k, d) elements and
\* returns k items in bottom-to-top order (last item = former top); when
\* d < k the k - d missing bottom slots are fresh witness variables,
\* varCounter grows by exactly k - d, and a deeper slot receives a larger
\* variable index than a shallower one.
C28_TakeElements ==
    (ret # <<>> /\ ret.call = "takeElements") =>
        LET k == ret.amount
            before == ret.this
            d == Len(before.stack)
            m == Min(k, d)
            res == ret.value
            after == objs[1]
        IN  /\ after.stack = SubSeq(before.stack, 1, d - m)
            /\ Len(res) = k
            /\ \A i \in 1..m : res[k - m + i] = before.stack[d - m + i]
            /\ \A i \in 1..(k - m) : res[i] = Var(before.varCounter + k - m - i)
            /\ after.varCounter = before.varCounter + (k - m)
            /\ \A i, j \in 1..(k - m) : i < j => res[i].var > res[j].var
            /\ after = [before EXCEPT !.stack = after.stack,
                                      !.varCounter = after.varCounter]

\* three elements were asked of a stack of depth one that held a variable
\* drawn earlier: two fresh variables below it
C28_Witness ==
    /\ ret # <<>>
    /\ ret.call = "takeElements"
    /\ ret.amount = 3
    /\ Len(ret.this.stack) = 1
    /\ ret.this.stack[1].type = "var"
    /\ ret.value[3] = ret.this.stack[1]
    /\ ret.value[1].type = "var"
    /\ ret.value[2].type = "var"
    /\ objs[1].stack = <<>>

RECURSIVE VarsOf(_, _)
\* the indices of the witness variables occurring in an expression
VarsOf(h, e) ==
    IF IsVar(e) THEN {e.var}
    ELSE IF IsApp(e)
    THEN UNION {VarsOf(h, h[e.ref].args[i]) : i \in 1..Len(h[e.ref].args)}
    ELSE {}

\* the indices occurring in a path's stack, altstack and spendingConditions
PathVars(h, a) ==
    UNION ({VarsOf(h, a.stack[i]) : i \in 1..Len(a.stack)}
           \cup {VarsOf(h, a.altstack[i]) : i \in 1..Len(a.altstack)}
           \cup {VarsOf(h, a.spendingConditions[i]) :
                    i \in 1..Len(a.spendingConditions)})

\* every variable of every path lies below that path's counter
C29_VarsBelowCounter ==
    \A id \in 1..Len(objs) :
        \A n \in PathVars(heap, objs[id]) :
            0 <= n /\ n < objs[id].varCounter

\* no counter decreases; a variable that a step brings into a path carries an
\* index from the old counter up to just below the new one; the root starts
\* at 0 with no variable, a fork starts at the counter its parent has reached
\* and any variable it holds beyond its parent's earlier ones was drawn by
\* the parent in the forking step
C29_DrawStep ==
    /\ \A id \in 1..Len(objs) :
          /\ objs'[id].varCounter >= objs[id].varCounter
          /\ PathVars(heap', objs'[id]) \ PathVars(heap, objs[id])
                \subseteq objs[id].varCounter..(objs'[id].varCounter - 1)
    /\ \A id \in (Len(objs) + 1)..Len(objs') :
          IF parent'[id] = 0
          THEN /\ objs'[id].varCounter = 0
               /\ PathVars(heap', objs'[id]) = {}
          ELSE /\ parent'[id] \in 1..Len(objs)
               /\ objs'[id].varCounter = objs'[parent'[id]].varCounter
               /\ objs'[id].varCounter >= objs[parent'[id]].varCounter
               /\ PathVars(heap', objs'[id])
                      \ PathVars(heap, objs[parent'[id]])
                     \subseteq objs[parent'[id]].varCounter
                                   ..(objs'[id].varCounter - 1)

\* C29: on every path, varCounter never decreases, every Var(n) occurring in
\* that path's stack, altstack or spendingConditions satisfies
\* 0 <= n < varCounter, and each draw of a fresh variable uses an index that
\* was never drawn before on that path (including the part of the path
\* executed by its ancestors before the fork).
C29_VariablesFresh == []C29_VarsBelowCounter /\ [][C29_DrawStep]_vars

\* a fork holds the variable its parent drew before the fork and one it drew
\* itself afterwards
C29_Witness ==
    \E id \in 1..Len(objs) :
        /\ parent[id] # 0
        /\ objs[id].varCounter = 2
        /\ PathVars(heap, objs[id]) = {0, 1}
        /\ status[id] = "returned"
        /\ objs[id].scriptOffset >= 2

\* the active analyzer is about to execute an OP_IFDUP
AtExecutedIfDup ==
    /\ InLoop
    /\ ~CurItem.push
    /\ CurItem.op = OP_IFDUP
    /\ fExec

\* what C30 says of that step; e is the top element, or the variable drawn
\* for the empty stack, below is the stack with e on top
C30_IfDupStep ==
    LET a == objs[Active]
        drawn == a.stack = <<>>
        e == IF drawn THEN Var(a.varCounter) ELSE a.stack[Len(a.stack)]
        below == IF drawn THEN <<e>> ELSE a.stack
        vc == IF drawn THEN a.varCounter + 1 ELSE a.varCounter
        fork == Len(objs) + 1
    IN  /\ Len(objs') = fork
        /\ branches' = Append(branches, fork)
        /\ callStack' = Append(callStack, fork)
        /\ objs'[Active]
              = [a EXCEPT !.scriptOffset = @ + 1,
                          !.varCounter = vc,
                          !.stack = below \o <<e>>,
                          !.spendingConditions = Append(@, e)]
        /\ objs'[fork].scriptOffset = a.scriptOffset + 1
        /\ objs'[fork].stack = below
        /\ objs'[fork].altstack = a.altstack
        /\ objs'[fork].varCounter = vc
        /\ objs'[fork].cs = a.cs
        /\ Len(objs'[fork].spendingConditions)
              = Len(a.spendingConditions) + 1
        /\ SubSeq(objs'[fork].spendingConditions, 1,
                  Len(a.spendingConditions)) = a.spendingConditions
        /\ Resolve(heap', Last(objs'[fork].spendingConditions))
              = [type |-> "opcode", opcode |-> INTERNAL_NOT,
                 args |-> <<Resolve(heap, e)>>]
        /\ status'[fork] = "running"
        /\ status'[Active] = "running"

\* C30: an executed OP_IFDUP on top element e (a fresh variable if the stack
\* is empty) yields exactly two branches that both continue at the next item:
\* the current one with e duplicated on top of the stack and e appended to
\* spendingConditions, and a fork whose stack still holds a single e and whose
\* spendingConditions gets INTERNAL_NOT(e).
C30_IfDupForks == [][AtExecutedIfDup => C30_IfDupStep]_vars

\* OP_IFDUP was executed on an empty stack: the fork has just been entered
\* with the fresh variable once on its stack, its parent holds it twice
C30_Witness ==
    /\ pc = "run"
    /\ Len(callStack) >= 2
    /\ parent[Active] = callStack[Len(callStack) - 1]
    /\ objs[Active].scriptOffset >= 1
    /\ ~script[objs[Active].scriptOffset].push
    /\ script[objs[Active].scriptOffset].op = OP_IFDUP
    /\ objs[Active].scriptOffset = objs[parent[Active]].scriptOffset
    /\ objs[Active].stack = <<Var(0)>>
    /\ objs[parent[Active]].stack = <<Var(0), Var(0)>>
    /\ objs[parent[Active]].spendingConditions = <<Var(0)>>
    /\ Len(objs[Active].spendingConditions) = 1
    /\ IsNot(heap, objs[Active].spendingConditions[1])

\* the active analyzer is about to execute OP_CHECKMULTISIG[VERIFY]
AtExecutedMultisig ==
    /\ InLoop
    /\ ~CurItem.push
    /\ CurItem.op \in {OP_CHECKMULTISIG, OP_CHECKMULTISIGVERIFY}
    /\ fExec

\* the step ends the active path with err and pushes nothing: what is left
\* of the stack is a prefix of what was there, conditions and heap are as
\* they were
EndsWith(err) ==
    /\ pc' = "run"
    /\ status'[Active] = "returned"
    /\ out'[Active] = err
    /\ IsPrefix(objs'[Active].stack, objs[Active].stack)
    /\ objs'[Active].spendingConditions = objs[Active].spendingConditions
    /\ objs'[Active].altstack = objs[Active].altstack
    /\ heap' = heap

\* the element a take finds at depth i (1: the top) of a stack, a witness
\* variable below the bottom
AtDepth(stack, i) ==
    IF i <= Len(stack) THEN stack[Len(stack) + 1 - i] ELSE Var(0)

\* a count element that is no concrete integer of at most 4 bytes
NotANumber(e) == ~IsBytes(e) \/ Len(e.bytes) > 4

C31_MultisigStep ==
    LET a == objs[Active]
        k == AtDepth(a.stack, 1)
    IN  IF version = ScriptVersion.SEGWITV1
        THEN /\ EndsWith(SCRIPT_ERR_TAPSCRIPT_CHECKMULTISIG)
             /\ objs'[Active] = [a EXCEPT !.scriptOffset = @ + 1]
        ELSE IF NotANumber(k) THEN EndsWith(SCRIPT_ERR_NUM_OVERFLOW)
        ELSE IF IntDecode(k.bytes) < 0 \/ IntDecode(k.bytes) > 20
        THEN EndsWith(SCRIPT_ERR_PUBKEY_COUNT)
        ELSE LET s == AtDepth(a.stack, IntDecode(k.bytes) + 2)
             IN  IF NotANumber(s) THEN EndsWith(SCRIPT_ERR_NUM_OVERFLOW)
                 ELSE (IntDecode(s.bytes) < 0
                         \/ IntDecode(s.bytes) > IntDecode(k.bytes))
                        => EndsWith(SCRIPT_ERR_SIG_COUNT)

\* C31: an executed OP_CHECKMULTISIG[VERIFY] fails with
\* TAPSCRIPT_CHECKMULTISIG under SegwitV1 before touching the stack; otherwise
\* a pubkey count that is not a concrete integer of at most 4 bytes ends the
\* path with NUM_OVERFLOW, a count outside [0, 20] with PUBKEY_COUNT, and a
\* signature count that is not such a concrete integer with NUM_OVERFLOW or
\* is outside [0, k] with SIG_COUNT; in all these cases the path ends with an
\* error code and nothing is pushed.
C31_MultisigErrors == [][AtExecutedMultisig => C31_MultisigStep]_vars

\* q is OP_NOT(p) or INTERNAL_NOT(p), p and the argument compared as trees
IsNegationOf(h, q, p) ==
    /\ IsApp(q)
    /\ h[q.ref].opcode \in {OP_NOT, INTERNAL_NOT}
    /\ Len(h[q.ref].args) = 1
    /\ Resolve(h, h[q.ref].args[1]) = Resolve(h, p)

\* a conjunct list that holds a predicate and its negation, in either order
HasNegatedPair(h, exprs) ==
    \E a, b \in 1..Len(exprs) : a # b /\ IsNegationOf(h, exprs[b], exprs[a])

\* cleanupConditions is about to run on the registry for the first time
AtFirstCleanup == pc = "clean0"

C32_PairStep ==
    \A p \in 1..Len(branches) :
        LET id == branches[p]
        IN  IF HasNegatedPair(heap, objs[id].spendingConditions)
            THEN id \notin LastShown'
            ELSE id \in LastShown'
                    <=> cleanupConditions(heap, objs, <<id>>).conds = <<id>>

\* C32: if a branch's conjunct list handed to the simplifier contains a pair
\* p, q where q is OP_NOT(p) or INTERNAL_NOT(p) (in either position, after
\* canonical normalization), the whole branch is deleted from the printed
\* disjunction, while the other branches are kept: each of them is printed
\* exactly if it is printed when simplified alone.
C32_NegatedPairDeletesBranch == [][AtFirstCleanup => C32_PairStep]_vars

\* of two branches the first held a predicate and its negation and is gone,
\* the second is printed
C32_Witness ==
    /\ pc = "clean1"
    /\ Len(objs) = 2
    /\ HasNegatedPair(heap, objs[1].spendingConditions)
    /\ ~HasNegatedPair(heap, objs[2].spendingConditions)
    /\ objs[2].spendingConditions # <<>>
    /\ shown = << <<2>> >>

\* a printed conjunct list in which no predicate occurs twice; printed holds
\* the predicates as trees, so equality is structural equality
NoDuplicates(conjuncts) ==
    \A a, b \in 1..Len(conjuncts) : a # b => conjuncts[a] # conjuncts[b]

\* C33: in every conjunct list printed by the simplifier, no two predicates
\* are structurally equal (same variant, same opcode and recursively equal
\* arguments, byte-equal byte strings): later duplicates have been removed,
\* including duplicates that only arise after a predicate was rewritten by
\* partial evaluation.
C33_NoDuplicatesPrinted ==
    \A d \in 1..Len(printed) : \A b \in 1..Len(printed[d]) :
        NoDuplicates(printed[d][b])

\* x before y in the lexicographic order of byte strings
LexLess(x, y) ==
    \E i \in 1..Len(y) :
        /\ \A j \in 1..(i - 1) : j <= Len(x) /\ x[j] = y[j]
        /\ i > Len(x) \/ x[i] < y[i]

\* the place of each variant in the order C34 states
StatedRank == [opcode |-> 0, var |-> 1, value |-> 2]

RECURSIVE TreeLess(_, _, _)
\* a before b, both given as trees, in the order C34 states with the
\* variants ranked by rank
TreeLess(rank, a, b) ==
    IF a.type # b.type THEN rank[a.type] < rank[b.type]
    ELSE IF a.type = "var" THEN a.var < b.var
    ELSE IF a.type = "value" THEN LexLess(a.bytes, b.bytes)
    ELSE IF a.opcode # b.opcode THEN a.opcode < b.opcode
    ELSE IF Len(a.args) # Len(b.args) THEN Len(a.args) < Len(b.args)
    ELSE \E i \in 1..Len(a.args) :
            /\ \A j \in 1..(i - 1) : a.args[j] = b.args[j]
            /\ TreeLess(rank, a.args[i], b.args[i])

\* exprCompareFn returned what the order by rank asks for
ComparedBy(rank) ==
    (ret # <<>> /\ ret.call = "exprCompareFn") =>
        /\ ret.value < 0 <=> TreeLess(rank, Resolve(heap, ret.a),
                                      Resolve(heap, ret.b))
        /\ ret.value > 0 <=> TreeLess(rank, Resolve(heap, ret.b),
                                      Resolve(heap, ret.a))

\* C34: in the canonical order used to sort conjunct lists and commutative
\* argument lists, two expressions of different variants are ordered App
\* before Var before Bytes; two Apps are ordered by opcode, then arity, then
\* arguments pairwise; two Vars by ascending index; two Bytes
\* lexicographically.
C34_CanonicalOrder == ComparedBy(StatedRank)

\* the opcodes C35 names
OrderSensitive ==
    {OP_CHECKMULTISIG, OP_CHECKSIG, OP_GREATERTHAN, OP_GREATERTHANOREQUAL,
     OP_LESSTHAN, OP_LESSTHANOREQUAL, OP_SUB, OP_WITHIN}

\* C35: normalization never changes the argument order of an App whose
\* opcode is OP_CHECKMULTISIG, OP_CHECKSIG, OP_GREATERTHAN,
\* OP_GREATERTHANOREQUAL, OP_LESSTHAN, OP_LESSTHANOREQUAL, OP_SUB or
\* OP_WITHIN, at any nesting depth of any conjunct; only argument lists of
\* other opcodes may be reordered.
C35_OrderSensitiveArgsKept ==
    (ret # <<>> /\ ret.call = "normalizeExprs") =>
        /\ Len(heap) = Len(ret.heap)
        /\ \A n \in 1..Len(heap) :
              /\ heap[n].opcode = ret.heap[n].opcode
              /\ heap[n].opcode \in OrderSensitive
                    => heap[n].args = ret.heap[n].args
              /\ \A e \in UtilExprs :
                    Cardinality({i \in 1..Len(heap[n].args) :
                                    heap[n].args[i] = e})
                      = Cardinality({i \in 1..Len(ret.heap[n].args) :
                                        ret.heap[n].args[i] = e})

\* the array held SUB(ADD(<01>, v0), v0): the arguments of the ADD were put
\* in order, those of the SUB around it stand as they were, out of order
C35_Witness ==
    /\ ret # <<>>
    /\ ret.call = "normalizeExprs"
    /\ Ref(10) \in Range(objs[1].spendingConditions)
    /\ heap[10].args = <<Ref(2), Var(0)>>
    /\ exprCompareFn(heap, heap[10].args[1], heap[10].args[2]) > 0
    /\ ret.heap[2].args = <<Bytes(<<1>>), Var(0)>>
    /\ heap[2].args = <<Var(0), Bytes(<<1>>)>>

\* the error codes of the three verifying opcodes
VerifyErrors ==
    {SCRIPT_ERR_EQUALVERIFY, SCRIPT_ERR_CHECKSIGVERIFY,
     SCRIPT_ERR_CHECKMULTISIGVERIFY}

\* no path has ended with one of them
C36_NoVerifyError == \A id \in 1..Len(out) : out[id] \notin VerifyErrors

\* the two elements OP_EQUALVERIFY and OP_CHECKSIGVERIFY take from analyzer
\* a, bottom first, witness variables standing in below the bottom
TopTwo(a) ==
    IF Len(a.stack) >= 2
    THEN <<a.stack[Len(a.stack) - 1], a.stack[Len(a.stack)]>>
    ELSE IF Len(a.stack) = 1 THEN <<Var(a.varCounter), a.stack[1]>>
    ELSE <<Var(a.varCounter + 1), Var(a.varCounter)>>

\* an executed OP_EQUALVERIFY or OP_CHECKSIGVERIFY appends its predicate and
\* goes on; an executed OP_CHECKMULTISIGVERIFY that builds its node does
C36_VerifyStep ==
    LET a == objs[Active]
        op == CurItem.op
        after == objs'[Active]
        Appended(opcode) ==
            /\ Len(after.spendingConditions) = Len(a.spendingConditions) + 1
            /\ heap'[Last(after.spendingConditions).ref].opcode = opcode
    IN  /\ op \in {OP_EQUALVERIFY, OP_CHECKSIGVERIFY} =>
              /\ pc' = "run"
              /\ status'[Active] = "running"
              /\ after.stack = SubSeq(a.stack, 1, Len(a.stack) - 2)
              /\ Appended(IF op = OP_EQUALVERIFY THEN OP_EQUAL
                          ELSE OP_CHECKSIG)
              /\ SubSeq(after.spendingConditions, 1,
                        Len(a.spendingConditions)) = a.spendingConditions
              /\ Resolve(heap', Last(after.spendingConditions)).args
                    = <<Resolve(heap, TopTwo(a)[1]),
                        Resolve(heap, TopTwo(a)[2])>>
        /\ op = OP_CHECKMULTISIGVERIFY =>
              \/ pc' = "threw"
              \/ /\ status'[Active] = "returned"
                 /\ out'[Active] \in {SCRIPT_ERR_TAPSCRIPT_CHECKMULTISIG,
                                      SCRIPT_ERR_NUM_OVERFLOW,
                                      SCRIPT_ERR_PUBKEY_COUNT,
                                      SCRIPT_ERR_SIG_COUNT}
              \/ /\ status'[Active] = "running"
                 /\ Len(after.spendingConditions)
                       = Len(a.spendingConditions) + 2
                 /\ heap'[Last(after.spendingConditions).ref].opcode
                       = OP_CHECKMULTISIG

\* the active analyzer is about to execute one of the three
AtExecutedVerifyOp ==
    /\ InLoop
    /\ ~CurItem.push
    /\ CurItem.op \in {OP_EQUALVERIFY, OP_CHECKSIGVERIFY,
                       OP_CHECKMULTISIGVERIFY}
    /\ fExec

\* C36: OP_EQUALVERIFY, OP_CHECKSIGVERIFY and OP_CHECKMULTISIGVERIFY never end
\* a path with EQUALVERIFY, CHECKSIGVERIFY or CHECKMULTISIGVERIFY: the value
\* they verify is always an App node, so the predicate is always appended to
\* spendingConditions and execution continues, even when both operands of
\* OP_EQUALVERIFY are concrete and different.
C36_VerifyOpsNeverFail ==
    []C36_NoVerifyError /\ [][AtExecutedVerifyOp => C36_VerifyStep]_vars

\* OP_1 OP_2 OP_EQUALVERIFY went on to the next item with EQUAL(<01>, <02>)
\* among the conditions
C36_Witness ==
    \E id \in 1..Len(objs) :
        /\ objs[id].scriptOffset >= 4
        /\ ~script[3].push
        /\ script[3].op = OP_EQUALVERIFY
        /\ \E c \in 1..Len(objs[id].spendingConditions) :
              Resolve(heap, objs[id].spendingConditions[c])
                 = [type |-> "opcode", opcode |-> OP_EQUAL,
                    args |-> <<Bytes(<<1>>), Bytes(<<2>>)>>]

\* a printed conjunct list in which no predicate stands next to its negation;
\* printed holds the predicates as trees
NoNegatedPair(conjuncts) ==
    \A a, b \in 1..Len(conjuncts) :
        ~ /\ conjuncts[b].type = "opcode"
          /\ conjuncts[b].opcode \in {OP_NOT, INTERNAL_NOT}
          /\ conjuncts[b].args = <<conjuncts[a]>>

\* C37: in every conjunct list printed by the simplifier, there is no pair of
\* predicates p and q with q equal to OP_NOT(p) or INTERNAL_NOT(p): a branch
\* in which such a pair appears, including a pair that only appears after
\* partial evaluation rewrote a predicate, is not printed.
C37_NoNegatedPairPrinted ==
    \A d \in 1..Len(printed) : \A b \in 1..Len(printed[d]) :
        NoNegatedPair(printed[d][b])

\* an iteration of the loop of analyze() moves the analyzer one item on, and
\* not past the end of the script
C38_IterationStep ==
    /\ objs'[Active].scriptOffset = objs[Active].scriptOffset + 1
    /\ objs'[Active].scriptOffset <= Len(script)

\* an analyzer created by a step is a fork that stands at the item after the
\* one its parent has just read
C38_ForkStep ==
    \A id \in (Len(objs) + 1)..Len(objs') :
        parent'[id] # 0 =>
            /\ parent'[id] = Active
            /\ objs'[id].scriptOffset = objs[Active].scriptOffset + 1

\* the opcodes that read a number from the stack with numFromStack
NumericOps == {OP_PICK, OP_ROLL, OP_CHECKMULTISIG, OP_CHECKMULTISIGVERIFY}

HasNumericOp ==
    \E i \in 1..Len(script) : ~script[i].push /\ script[i].op \in NumericOps

\* the analysis is over: every analyzer has returned from analyze() (none
\* was made if the pre-scan stopped at a disabled opcode), or numFromStack
\* threw on an operand that is not concrete
C38_Over ==
    \/ pc = "threw" /\ HasNumericOp
    \/ /\ pc \in {"run", "done"}
       /\ Len(callStack) <= 1
       /\ \A id \in 1..Len(objs) : status[id] = "returned"

DependsMatch(p) ==
    LET tx == txobjs[template.transactions[p]]
    IN  /\ Len(tx.depends) = Len(tx.TXdepends)
        /\ \A i \in 1..Len(tx.depends) :
              /\ tx.depends[i] \in 1..Len(template.transactions)
              /\ template.transactions[tx.depends[i]] = tx.TXdepends[i]

\* C39 (SpecTemplate): after removeTransaction or insertTransaction returns,
\* for every transaction t left in template.transactions and every position
\* i, t.depends[i] is the 1-based index in template.transactions of
\* t.TXdepends[i]; no depends entry is 0 or refers to a transaction that is no
\* longer in the template.
C39_DependsConsistent ==
    ret # <<>> => \A p \in 1..Len(template.transactions) : DependsMatch(p)

============================================================================
